---- MODULE Spec2Model ----
(***************************************************************************)
(* Heuristic decoder for WinCC TagCompressed blocks (digital _DC blocks    *)
(* and analog #Value blocks).  One block is decoded per behaviour: the     *)
(* header search, the period read, the alignment probe or the codec/skip   *)
(* grid, and the timestamp reconstruction loop.                            *)
(*                                                                         *)
(* Representation.  Bytes are 0..255 and a buffer is a sequence of bytes;  *)
(* the code's 0-based offset i is element i+1.  Times are integers in     *)
(* milliseconds.  A decoded analog value is a record: [k |-> "fin", m |->  *)
(* m, x |-> x] is the finite value m * 2^x (m odd, or 0), and the kinds    *)
(* "nan", "pinf", "ninf" are the IEEE specials.  A float32 is held         *)
(* exactly, a float64 to its upper 24 significant bits.  Scores are        *)
(* integers in units of 1/ScoreUnit.                                       *)
(***************************************************************************)
EXTENDS Integers, Sequences, FiniteSets, TLC

VARIABLES
    tool,       \* "dc" (export_dc_tags_bulk) or "analog" (export_analog_tags_bulk)
    msb_first,  \* --msb_first
    codec,      \* --codec: "auto", "f32", "f64", "i16", "varint"
    scale,      \* scale factor of the tag (an integer here)
    b,          \* the block's bytes (BinValues)
    tb,         \* Timebegin, ms
    te,         \* Timeend, ms
    pc,         \* position in the per-block decode
    off,        \* offset returned by find_excel_serial_double, None if none
    period_ms,  \* period read from the header or inferred by the fallback
    header_end, \* off + 12
    exp_n,      \* expected sample count (exp_samples / exp_n)
    chosen,     \* digital: extra bytes skipped; analog: skip of the winner
    best,       \* analog: the winning tuple of the search, None if none
    picked,     \* the values (analog) or the payload bytes (digital) emitted from
    pname,      \* picked_name: codec of the emitted values
    bi,         \* index of the value / payload byte the emit loop is at
    bk,         \* digital: index of the bit inside the current byte
    t,          \* running timestamp of the emit loop
    rows,       \* rows written for this block: <<timestamp, value>>
    outcome,    \* "", "Emitted", "HeaderNotFound", "TruncatedHeader", "NoPlausibleCodec"
    blocks,     \* the blocks fetched for the tag, in Timebegin order: [b, tb, te]
    blk,        \* index in blocks of the block being decoded
    done,       \* what the blocks before blk came to: [outcome, period, name, rows]
    arg,        \* input of a decoder or of the scorer called on its own
    res         \* what that call returned

vars == <<tool, msb_first, codec, scale, b, tb, te, pc, off, period_ms, header_end,
          exp_n, chosen, best, picked, pname, bi, bk, t, rows, outcome,
          blocks, blk, done, arg, res>>

config == <<tool, msb_first, codec, scale, b, tb, te>>

\* the run over the blocks of a tag
runv == <<blocks, blk, done>>

\* a function called on its own
fnv == <<arg, res>>

\* the per-block variables of the decode
blockv == <<pc, off, period_ms, header_end, exp_n, chosen, best, picked, pname, bi, bk,
            t, rows, outcome>>

None == -1

Byte == 0..255

Max(x, y) == IF x >= y THEN x ELSE y

Min(x, y) == IF x <= y THEN x ELSE y

Abs(x) == IF x < 0 THEN -x ELSE x

RECURSIVE TwoTo(_)
TwoTo(k) == IF k <= 0 THEN 1 ELSE 2 * TwoTo(k - 1)

\* 1 << k for the k of a 32-bit signed integer
Pow2Table == SubSeq([k \in 1..30 |-> TwoTo(k)], 1, 30)

Pow2(k) == IF k <= 0 THEN 1 ELSE Pow2Table[k]

\* buf[i:] of the code (0-based i; empty when i >= len)
Slice(buf, i) == IF i >= Len(buf) THEN << >> ELSE SubSeq(buf, i + 1, Len(buf))

\* [f(1), ..., f(n)] as a list
ListOf(f, n) == SubSeq(f, 1, n)

\* buf[:n]
Prefix(s, n) == IF n <= 0 THEN << >> ELSE SubSeq(s, 1, Min(n, Len(s)))

(***************************************************************************)
(* HeaderLocator                                                           *)
(***************************************************************************)

\* bit patterns of the doubles 35000.0 and 55000.0, most significant byte first
DateLoBits == <<64, 225, 23, 0, 0, 0, 0, 0>>

DateHiBits == <<64, 234, 219, 0, 0, 0, 0, 0>>

\* struct.unpack_from("<d", buf, i): the 8 bytes at offset i, most significant first
DoubleBitsAt(buf, i) == [j \in 1..8 |-> buf[i + 9 - j]]

RECURSIVE LexLeqFrom(_, _, _)
LexLeqFrom(x, y, j) ==
    IF j > Len(x) THEN TRUE
    ELSE IF x[j] < y[j] THEN TRUE
    ELSE IF x[j] > y[j] THEN FALSE
    ELSE LexLeqFrom(x, y, j + 1)

\* 35000.0 <= d <= 55000.0 for the double at offset i.  Both bounds are positive
\* normal doubles, so the comparison of the values is the comparison of the bit
\* patterns (a NaN, an infinity or a negative double has a pattern outside).
InDateRange(buf, i) ==
    /\ LexLeqFrom(DateLoBits, DoubleBitsAt(buf, i), 1)
    /\ LexLeqFrom(DoubleBitsAt(buf, i), DateHiBits, 1)

SearchLimitDC == 64

SearchLimitAnalog == 256

\* the same walk keeping the last in-range offset instead of returning at the first
RECURSIVE FindFromLast(_, _, _)
FindFromLast(buf, lo, hi) ==
    IF hi - lo = 1 THEN (IF InDateRange(buf, lo) THEN lo ELSE None)
    ELSE LET mid == lo + (hi - lo) \div 2
             last == FindFromLast(buf, mid, hi)
         IN  IF last # None THEN last ELSE FindFromLast(buf, lo, mid)

\* The loop "for i in range(lo, hi): if in range: return i", lo < hi.  The range is
\* walked in ascending order, split in halves so that the evaluation depth stays
\* logarithmic: the first half is searched first and wins.
RECURSIVE FindFrom(_, _, _)
FindFrom(buf, lo, hi) ==
    IF hi - lo = 1 THEN (IF InDateRange(buf, lo) THEN lo ELSE None)
    ELSE LET mid == lo + (hi - lo) \div 2
             first == FindFrom(buf, lo, mid)
         IN  IF first # None THEN first ELSE FindFrom(buf, mid, hi)

\* for i in range(0, min(len(b)-8, search_limit)): first in-range offset, else None
find_excel_serial_double(buf, search_limit) ==
    LET stop == Min(Len(buf) - 8, search_limit)
    IN  IF stop <= 0 THEN None ELSE FindFrom(buf, 0, stop)

(***************************************************************************)
(* PeriodReader                                                            *)
(***************************************************************************)

\* the period read four bytes early, out of the upper half of the date double
U32LEInsideDouble(buf, i) ==
    buf[i - 3] + 256 * buf[i - 2] + 65536 * buf[i - 1] + 16777216 * buf[i]

\* struct.unpack_from("<I", buf, i)
U32LE(buf, i) ==
    buf[i + 1] + 256 * buf[i + 2] + 65536 * buf[i + 3] + 16777216 * buf[i + 4]

\* the test with >= in place of >: a period field ending the buffer is refused
HeaderTruncatedStrict(buf, o) == (o + 8) + 4 >= Len(buf)

\* period_off + 4 > len(b)
HeaderTruncated(buf, o) == (o + 8) + 4 > Len(buf)

\* max(total_ms // max(1, period_ms), 0)
\* the count rounded up: every tick before the end time
ExpectedCountCeil(total_ms, p) == Max((total_ms + Max(1, p) - 1) \div Max(1, p), 0)

ExpectedCount(total_ms, p) == Max(total_ms \div Max(1, p), 0)

(***************************************************************************)
(* AlignmentSynchronizer and DigitalBitDecoder                             *)
(***************************************************************************)

DcProbes == 5

\* best fit instead of first fit: the largest skip that still holds expn bits
DcProbeFromLargest(buf, hend, expn, extra) ==
    LET fit == {e \in extra..(DcProbes - 1) : (Len(buf) - (hend + e)) * 8 >= expn}
    IN  IF fit = {} THEN 0 ELSE CHOOSE e \in fit : \A f \in fit : f <= e

\* "chosen = extra" on every turn of the loop: the last skip tried is kept when
\* none fits
RECURSIVE DcProbeFromKeepLast(_, _, _, _)
DcProbeFromKeepLast(buf, hend, expn, extra) ==
    IF (Len(buf) - (hend + extra)) * 8 >= expn \/ extra >= DcProbes - 1 THEN extra
    ELSE DcProbeFromKeepLast(buf, hend, expn, extra + 1)

RECURSIVE DcProbeFrom(_, _, _, _)
DcProbeFrom(buf, hend, expn, extra) ==
    IF extra >= DcProbes THEN 0
    ELSE IF (Len(buf) - (hend + extra)) * 8 >= expn THEN extra
    ELSE DcProbeFrom(buf, hend, expn, extra + 1)

\* chosen = 0; for extra in range(0, 5): if fits: chosen = extra; break
DcChooseSkip(buf, hend, expn) == DcProbeFrom(buf, hend, expn, 0)

\* (byte >> k) & 1
BitAt(byte, k) == (byte \div Pow2(k)) % 2

\* bits[k] with the two bit orders exchanged
DcBitSwapped(byte, k, msb) == IF msb THEN BitAt(byte, k) ELSE BitAt(byte, 7 - k)

\* MSB-first read as (byte >> (8-k)) & 1
DcBitOffByOne(byte, k, msb) == IF msb THEN BitAt(byte, 8 - k) ELSE BitAt(byte, k)

\* bits[k] of the list built for one byte
DcBit(byte, k, msb) == IF msb THEN BitAt(byte, 7 - k) ELSE BitAt(byte, k)

(***************************************************************************)
(* Decoded values                                                          *)
(***************************************************************************)

RECURSIVE FloorLog2(_)
FloorLog2(x) == IF x < 2 THEN 0 ELSE 1 + FloorLog2(x \div 2)

\* number of bits of a >= 0
BitLen(a) == IF a = 0 THEN 0 ELSE FloorLog2(a) + 1

\* the canonical pair of m * 2^x: m odd, or 0 with exponent 0
RECURSIVE Canon(_, _)
Canon(m, x) ==
    IF m = 0 THEN [k |-> "fin", m |-> 0, x |-> 0]
    ELSE IF m % 2 = 0 THEN Canon(m \div 2, x + 1)
    ELSE [k |-> "fin", m |-> m, x |-> x]

\* the finite value m * 2^x
Fl(neg, mag, x) == LET c == Canon(mag, x) IN [c EXCEPT !.m = IF neg THEN -c.m ELSE c.m]

FlInt(i) == Fl(i < 0, Abs(i), 0)

NaN == [k |-> "nan", m |-> 0, x |-> 0]

Inf(neg) == [k |-> IF neg THEN "ninf" ELSE "pinf", m |-> 0, x |-> 0]

\* math.isfinite(v)
IsFinite(v) == v.k = "fin"

\* struct.unpack("<f"): the float32 at offset i of buf (exact)
F32At(buf, i) ==
    LET b0 == buf[i + 1]
        b1 == buf[i + 2]
        b2 == buf[i + 3]
        b3 == buf[i + 4]
        neg == b3 >= 128
        e == (b3 % 128) * 2 + (b2 \div 128)
        m == (b2 % 128) * 65536 + b1 * 256 + b0
    IN  IF e = 255 THEN (IF m = 0 THEN Inf(neg) ELSE NaN)
        ELSE IF e = 0 THEN Fl(neg, m, -149)
        ELSE Fl(neg, 8388608 + m, e - 150)

\* struct.unpack("<d"): the float64 at offset i of buf, its 53-bit significand
\* truncated to the upper 24 bits
F64At(buf, i) ==
    LET b3 == buf[i + 4]
        b6 == buf[i + 7]
        b7 == buf[i + 8]
        neg == b7 >= 128
        e == (b7 % 128) * 16 + (b6 \div 16)
        mh == (b6 % 16) * 65536 + buf[i + 6] * 256 + buf[i + 5]
        lowZero == \A j \in 1..4 : buf[i + j] = 0
    IN  IF e = 2047 THEN (IF mh = 0 /\ lowZero THEN Inf(neg) ELSE NaN)
        ELSE IF e = 0 THEN Fl(neg, mh * 8 + (b3 \div 32), -1045)
        ELSE Fl(neg, (1048576 + mh) * 8 + (b3 \div 32), e - 1046)

\* the same read as an unsigned 16-bit integer ("<H")
I16AtUnsigned(buf, i) == buf[i + 1] + 256 * buf[i + 2]

\* struct.unpack("<h"): the signed 16-bit integer at offset i of buf
I16At(buf, i) ==
    LET u == buf[i + 1] + 256 * buf[i + 2]
    IN  IF u >= 32768 THEN u - 65536 ELSE u

\* |v| > lm * 2^lx, for a finite v and an odd lm
Exceeds(v, lm, lx) ==
    LET a == Abs(v.m)
        ta == BitLen(a) + v.x
        tl == BitLen(lm) + lx
        al == IF BitLen(a) > 30 THEN a \div 2 ELSE a * Pow2(30 - BitLen(a))
    IN  IF a = 0 THEN FALSE
        ELSE IF ta # tl THEN ta > tl
        ELSE al > lm * Pow2(30 - BitLen(lm))

(***************************************************************************)
(* AnalogCodecBank                                                         *)
(***************************************************************************)

\* vals[:n] if len(vals) >= n else vals
take_exact(vals, n) == IF Len(vals) >= n THEN Prefix(vals, n) ELSE vals

\* m = min(n*w, len - len % w): the number of payload bytes unpacked
FixedBytes(payload, n, w) == Min(n * w, Len(payload) - (Len(payload) % w))

\* every whole float32 of the payload, n not looked at
decode_float32_all(payload, n) ==
    ListOf([j \in 1..(Len(payload) \div 4) |-> F32At(payload, 4 * (j - 1))],
           Len(payload) \div 4)

decode_float32(payload, n) ==
    LET m == FixedBytes(payload, n, 4)
    IN  IF m <= 0 THEN << >>
        ELSE take_exact(ListOf([j \in 1..(m \div 4) |-> F32At(payload, 4 * (j - 1))], m \div 4), n)

decode_float64(payload, n) ==
    LET m == FixedBytes(payload, n, 8)
    IN  IF m <= 0 THEN << >>
        ELSE take_exact(ListOf([j \in 1..(m \div 8) |-> F64At(payload, 8 * (j - 1))], m \div 8), n)

decode_int16_scaled(payload, n, sc) ==
    LET m == FixedBytes(payload, n, 2)
    IN  IF m <= 0 THEN << >>
        ELSE take_exact(ListOf([j \in 1..(m \div 2) |->
                                  FlInt(I16At(payload, 2 * (j - 1)) * sc)], m \div 2), n)

\* Every u >= VarintSat zigzag-decodes to |d| >= 2^30 > 1e9 and trips the delta
\* guard, so the accumulated result is held saturated at VarintSat.
VarintSat == 2147483647

\* result | ((b & 0x7F) << shift), saturating
VarintOr(result, low7, shift) ==
    IF low7 = 0 THEN result
    ELSE IF shift > 28 \/ (shift = 28 /\ low7 >= 8) THEN VarintSat
    ELSE IF result >= VarintSat - low7 * Pow2(shift) THEN VarintSat
    ELSE result + low7 * Pow2(shift)

\* the same read with the index left on the last byte of the varint
RECURSIVE VarintLoopPeek(_, _, _, _)
VarintLoopPeek(buf, i, shift, result) ==
    IF i >= Len(buf) THEN [u |-> result, i |-> i, ok |-> FALSE]
    ELSE LET byte == buf[i + 1]
             r == VarintOr(result, byte % 128, shift)
         IN  IF byte < 128 THEN [u |-> r, i |-> i, ok |-> TRUE]
             ELSE IF shift + 7 > 63 THEN [u |-> r, i |-> i + 1, ok |-> FALSE]
             ELSE VarintLoopPeek(buf, i + 1, shift + 7, r)

RECURSIVE VarintLoop(_, _, _, _)
VarintLoop(buf, i, shift, result) ==
    IF i >= Len(buf) THEN [u |-> result, i |-> i, ok |-> FALSE]
    ELSE LET byte == buf[i + 1]
             r == VarintOr(result, byte % 128, shift)
         IN  IF byte < 128 THEN [u |-> r, i |-> i + 1, ok |-> TRUE]
             ELSE IF shift + 7 > 63 THEN [u |-> r, i |-> i + 1, ok |-> FALSE]
             ELSE VarintLoop(buf, i + 1, shift + 7, r)

read_varint_leb128(buf, i) == VarintLoop(buf, i, 0, 0)

\* the shift alone, the sign bit dropped
zigzag_decode_unsigned(u) == u \div 2

\* (u >> 1) ^ -(u & 1)
zigzag_decode(u) == IF u % 2 = 0 THEN u \div 2 ELSE -((u - 1) \div 2) - 1

\* abs(d) > 1e9
DeltaGuard(d) == Abs(d) > 1000000000

\* base is a Python integer and goes beyond 32 bits before its guard trips: it is
\* held as [hi, lo], the integer hi * BaseLimb + lo with 0 <= lo < BaseLimb
BaseLimb == 1048576

BaseZero == [hi |-> 0, lo |-> 0]

\* base += d, for a d that passed the delta guard
BaseAdd(base, d) ==
    LET s == base.lo + d
    IN  [hi |-> base.hi + (s - (s % BaseLimb)) \div BaseLimb, lo |-> s % BaseLimb]

\* abs(base) > 1e12, where 1e12 = 953674 * BaseLimb + 331776
BaseGuard(base) ==
    \/ base.hi > 953674
    \/ (base.hi = 953674 /\ base.lo > 331776)
    \/ base.hi < -953675
    \/ (base.hi = -953675 /\ base.lo < BaseLimb - 331776)

\* base * scale as a float: exact below 2^31, its upper 31 bits above
BaseTimes(base, sc) ==
    LET l == base.lo * sc
        ph == base.hi * sc + (l - (l % BaseLimb)) \div BaseLimb
        pl == l % BaseLimb
        neg == ph < 0
        mh == IF ~neg THEN ph ELSE IF pl = 0 THEN -ph ELSE -ph - 1
        ml == IF ~neg \/ pl = 0 THEN pl ELSE BaseLimb - pl
        sh == BitLen(mh) - 11
    IN  IF sh <= 0 THEN Fl(neg, mh * BaseLimb + ml, 0)
        ELSE Fl(neg, mh * Pow2(20 - sh) + ml \div Pow2(sh), sh)

\* a budget of half a step per payload byte
VarintMaxStepsHalf(payload, n) == Min(Len(payload) \div 2, n * 4 + 1024)

\* min(len(payload)*2, n*4 + 1024)
VarintMaxSteps(payload, n) == Min(Len(payload) * 2, n * 4 + 1024)

\* the same pass with out.append moved before the two guards
VarintDeltaStepAppendFirst(payload, n, sc, st) ==
    IF st.halt \/ ~(Len(st.out) < n /\ st.i < Len(payload)
                      /\ st.steps < VarintMaxSteps(payload, n))
    THEN [st EXCEPT !.halt = TRUE]
    ELSE LET r == read_varint_leb128(payload, st.i)
             d == zigzag_decode(r.u)
             nb == BaseAdd(st.base, d)
         IN  IF ~r.ok THEN [st EXCEPT !.halt = TRUE, !.i = r.i]
             ELSE [out |-> Append(st.out, BaseTimes(nb, sc)), i |-> r.i, base |-> nb,
                   steps |-> st.steps + 1, halt |-> DeltaGuard(d) \/ BaseGuard(nb)]

\* One test of the while condition and, if it holds, one pass through the body.
\* st is [out, i, base, steps, halt]; halt is set once the loop has been left.
VarintDeltaStep(payload, n, sc, st) ==
    IF st.halt \/ ~(Len(st.out) < n /\ st.i < Len(payload)
                      /\ st.steps < VarintMaxSteps(payload, n))
    THEN [st EXCEPT !.halt = TRUE]
    ELSE LET r == read_varint_leb128(payload, st.i)
             d == zigzag_decode(r.u)
         IN  IF ~r.ok THEN [st EXCEPT !.halt = TRUE, !.i = r.i]
             ELSE IF DeltaGuard(d) THEN [st EXCEPT !.halt = TRUE, !.i = r.i]
             ELSE IF BaseGuard(BaseAdd(st.base, d))
             THEN [st EXCEPT !.halt = TRUE, !.i = r.i, !.base = BaseAdd(st.base, d)]
             ELSE [out |-> Append(st.out, BaseTimes(BaseAdd(st.base, d), sc)), i |-> r.i,
                   base |-> BaseAdd(st.base, d), steps |-> st.steps + 1, halt |-> FALSE]

\* out = []; i = 0; base = 0; steps = 0
VarintStart == [out |-> << >>, i |-> 0, base |-> BaseZero, steps |-> 0, halt |-> FALSE]

\* count passes of the loop, one after the other (halved to keep the evaluation
\* depth logarithmic); nothing changes once the loop has been left
RECURSIVE VarintDeltaRun(_, _, _, _, _)
VarintDeltaRun(payload, n, sc, st, count) ==
    IF count <= 1 THEN VarintDeltaStep(payload, n, sc, st)
    ELSE LET mid == VarintDeltaRun(payload, n, sc, st, count \div 2)
         IN  IF mid.halt THEN mid
             ELSE VarintDeltaRun(payload, n, sc, mid, count - count \div 2)

\* The body adds 1 to steps on every pass that does not leave the loop, so the
\* loop is left within max_steps + 1 tests of its condition.
decode_varint_delta(payload, n, sc) ==
    VarintDeltaRun(payload, n, sc,
                   VarintStart,
                   VarintMaxSteps(payload, n) + 1).out

(***************************************************************************)
(* PlausibilityScorer                                                      *)
(*                                                                         *)
(* The code scores in double precision.  Here a score is an integer count  *)
(* of 1/ScoreUnit and a logarithm is a fixed-point log2 with LogBits       *)
(* fractional bits, taken on a 29-bit mantissa.  The statistics of a       *)
(* candidate are taken exactly (as multi-limb integers) on its values      *)
(* aligned to AlignBits below its largest magnitude.                       *)
(***************************************************************************)

LogBits == 18

LogUnit == Pow2(LogBits)

\* a score of 1.0
ScoreUnit == LogUnit

\* base of the multi-limb integers (least significant limb first)
Limb == Pow2(15)

\* floor(a * c / 2^30) for 0 <= a < 2^30 and 0 <= c < 2^29
MulShift30(a, c) ==
    LET a1 == a \div Limb
        a0 == a % Limb
        c1 == c \div Limb
        c0 == c % Limb
    IN  a1 * c1 + (a1 * c0 + a0 * c1 + (a0 * c0) \div Limb) \div Limb

\* a * c / 2^30 rounded toward zero
MulShift(a, c) == IF a < 0 THEN -MulShift30(-a, c) ELSE MulShift30(a, c)

\* m * m / 2^28 for a mantissa 2^28 <= m < 2^29
SqMant(m) ==
    LET h == m \div Pow2(14)
        l == m % Pow2(14)
    IN  h * h + (h * l) \div Pow2(13)

\* the LogBits fractional bits of log2(m / 2^28), by repeated squaring
RECURSIVE Log2Frac(_, _, _)
Log2Frac(m, j, acc) ==
    IF j = 0 THEN acc
    ELSE LET sq == SqMant(m)
         IN  IF sq >= Pow2(29)
             THEN Log2Frac(sq \div 2, j - 1, 2 * acc + 1)
             ELSE Log2Frac(sq, j - 1, 2 * acc)

\* log2(x) * LogUnit for an integer x >= 1
Log2Fix(x) ==
    LET k == FloorLog2(x)
        m == IF k <= 28 THEN x * Pow2(28 - k) ELSE x \div Pow2(k - 28)
    IN  k * LogUnit + Log2Frac(m, LogBits, 0)

\* 2^(2^-j) * 2^27 for j = 1, 2, ...
RootsOf2 == <<189812531, 159612677, 146365470, 140160054, 137156714, 135679263,
              134946517, 134581629, 134399555, 134308611, 134263162, 134240443,
              134229085, 134223406, 134220567, 134219148, 134218438, 134218083,
              134217905, 134217817, 134217772, 134217750, 134217739, 134217734>>

\* 2^(f / LogUnit) * 2^27 for 0 <= f < LogUnit: the product of the roots of 2 at
\* the one-bits of f
RECURSIVE Exp2Frac(_, _, _)
Exp2Frac(f, j, acc) ==
    IF j > LogBits THEN acc
    ELSE IF (f \div Pow2(LogBits - j)) % 2 = 1
    THEN Exp2Frac(f, j + 1, MulShift30(4 * acc, 2 * RootsOf2[j]))
    ELSE Exp2Frac(f, j + 1, acc)

\* log2(1 + 2^(-g / LogUnit)) * LogUnit for g >= 0
Log2OnePlus(g) ==
    LET f == (LogUnit - (g % LogUnit)) % LogUnit
        i == (g + f) \div LogUnit
        r == IF i > 27 THEN 0 ELSE Exp2Frac(f, 1, Pow2(27)) \div Pow2(i)
    IN  Log2Fix(Pow2(27) + r) - 27 * LogUnit

\* math.log10 and math.log of 2^(a / LogUnit), as scores
Log10Score(a) == MulShift(a, 323228497)

LnScore(a) == MulShift(2 * a, 372130559)

\* s[lo] + ... + s[hi]
RECURSIVE SumRange(_, _, _)
SumRange(s, lo, hi) ==
    IF lo > hi THEN 0
    ELSE IF lo = hi THEN s[lo]
    ELSE SumRange(s, lo, lo + (hi - lo) \div 2) + SumRange(s, lo + (hi - lo) \div 2 + 1, hi)

SumSeq(s) == SumRange(s, 1, Len(s))

\* limb i of a (0 beyond its length)
LimbAt(a, i) == IF i <= Len(a) THEN a[i] ELSE 0

\* a + b, from limb i on with a carry
RECURSIVE BigAddFrom(_, _, _, _)
BigAddFrom(a, c, i, carry) ==
    IF i > Max(Len(a), Len(c)) THEN (IF carry = 0 THEN << >> ELSE <<carry>>)
    ELSE LET s == LimbAt(a, i) + LimbAt(c, i) + carry
         IN  <<s % Limb>> \o BigAddFrom(a, c, i + 1, s \div Limb)

BigAdd(a, c) == BigAddFrom(a, c, 1, 0)

\* a - b for a >= b, from limb i on with a borrow
RECURSIVE BigSubFrom(_, _, _, _)
BigSubFrom(a, c, i, borrow) ==
    IF i > Len(a) THEN << >>
    ELSE LET s == LimbAt(a, i) - LimbAt(c, i) - borrow
         IN  <<s % Limb>> \o BigSubFrom(a, c, i + 1, IF s < 0 THEN 1 ELSE 0)

BigSub(a, c) == BigSubFrom(a, c, 1, 0)

\* a * n for 0 <= n < Limb, from limb i on with a carry
RECURSIVE BigMulFrom(_, _, _, _)
BigMulFrom(a, n, i, carry) ==
    IF i > Len(a) THEN (IF carry = 0 THEN << >> ELSE <<carry>>)
    ELSE LET s == a[i] * n + carry
         IN  <<s % Limb>> \o BigMulFrom(a, n, i + 1, s \div Limb)

BigMul(a, n) == BigMulFrom(a, n, 1, 0)

\* the limbs of 0 <= v < 2^30
Big(v) == <<v % Limb, v \div Limb>>

\* x * x for |x| < 2^30
BigSq(x) ==
    LET h == Abs(x) \div Limb
        l == Abs(x) % Limb
        hl == <<0>> \o Big(h * l)
    IN  BigAdd(BigAdd(Big(l * l), hl), BigAdd(hl, <<0, 0>> \o Big(h * h)))

\* s[lo]^2 + ... + s[hi]^2
RECURSIVE BigSumSq(_, _, _)
BigSumSq(s, lo, hi) ==
    IF lo > hi THEN << >>
    ELSE IF lo = hi THEN BigSq(s[lo])
    ELSE BigAdd(BigSumSq(s, lo, lo + (hi - lo) \div 2),
                BigSumSq(s, lo + (hi - lo) \div 2 + 1, hi))

\* a without its leading zero limbs
RECURSIVE BigTrim(_)
BigTrim(a) ==
    IF a # << >> /\ a[Len(a)] = 0 THEN BigTrim(SubSeq(a, 1, Len(a) - 1)) ELSE a

\* log2(a) * LogUnit for a > 0, on the leading 29 bits of a
Log2Big(a) ==
    LET tr == BigTrim(a)
        n == Len(tr)
        v2 == tr[n] * Limb + tr[n - 1]
        bl == BitLen(v2)
        m == IF bl >= 29 THEN v2 \div Pow2(bl - 29)
             ELSE v2 * Pow2(29 - bl) + tr[n - 2] \div Pow2(bl - 14)
    IN  IF n = 1 THEN Log2Fix(tr[1])
        ELSE IF n = 2 THEN Log2Fix(v2)
        ELSE (15 * (n - 2) + bl - 1) * LogUnit + Log2Frac(m, LogBits, 0)

\* bits kept below the leading bit of the largest magnitude of n values: 24, fewer
\* when the sum of n deviations would not fit
AlignBits(n) == Min(24, 29 - BitLen(n))

\* m * 2^s truncated toward zero
Shifted(m, s) ==
    IF m = 0 THEN 0
    ELSE IF s >= 0 THEN m * Pow2(s)
    ELSE IF -s > 30 THEN 0
    ELSE IF m < 0 THEN -((-m) \div Pow2(-s)) ELSE m \div Pow2(-s)

\* if v > 1e12: v = 1e12; if v < -1e12: v = -1e12   (1e12 = 5^12 * 2^12)
Clip(v) == IF Exceeds(v, 244140625, 12) THEN Fl(v.m < 0, 244140625, 12) ELSE v

\* position of the leading bit of v
TopBit(v) == BitLen(Abs(v.m)) + v.x

\* safe_stats over the finite values: [n, sum, u, d], where with w[j] the j-th
\* clipped value in units of 2^u
\*   mean = sum * 2^u / n   and   M2 / (n - 1) = d * 4^u / (n * (n - 1)),
\* d = n * sum(dev^2) - sum(dev)^2 on the deviations dev[j] = w[j] - w[1] (the
\* variance does not depend on the origin), a multi-limb integer.
safe_stats(values) ==
    LET fin == SelectSeq(values, IsFinite)
        n == Len(fin)
        cl == ListOf([j \in 1..n |-> Clip(fin[j])], n)
        nz == {j \in 1..n : cl[j].m # 0}
        tops == {TopBit(cl[j]) : j \in nz}
        u == IF nz = {} THEN 0
             ELSE (CHOOSE tp \in tops : \A o \in tops : o <= tp) - AlignBits(n)
        w == ListOf([j \in 1..n |-> Shifted(cl[j].m, cl[j].x - u)], n)
        dev == ListOf([j \in 1..n |-> w[j] - w[1]], n)
    IN  [n |-> n, sum |-> SumSeq(w), u |-> u,
         d |-> IF n <= 1 THEN << >>
               ELSE BigTrim(BigSub(BigMul(BigSumSq(dev, 1, n), n), BigSq(SumSeq(dev))))]

\* log2(sd) * LogUnit, for st.d > 0:  sd^2 = d * 4^u / (n * (n - 1))
Log2Sd(st) ==
    LET l == Log2Big(st.d) - Log2Fix(st.n) - Log2Fix(st.n - 1)
    IN  (IF l < 0 THEN -((-l) \div 2) ELSE l \div 2) + st.u * LogUnit

\* log2(1e-6) * LogUnit
Log2Micro == -Log2Fix(1000 * 1000)

\* math.log10(sd + 1e-6): the log2 of the larger of sd and 1e-6, plus
\* log2(1 + smaller / larger); sd = 0.0 leaves log10(1e-6)
var_term(st) ==
    IF st.d = << >> THEN Log10Score(Log2Micro)
    ELSE LET g == Log2Sd(st) - Log2Micro
         IN  IF g >= 0 THEN Log10Score(Log2Sd(st) + Log2OnePlus(g))
             ELSE Log10Score(Log2Micro + Log2OnePlus(-g))

\* -abs(math.log(n_total / max(1, target_n) + 1e-9))
length_penalty(n_total, target_n) ==
    -Abs(LnScore(Log2Fix(n_total) - Log2Fix(Max(1, target_n))))

\* -0.1 if abs(mean) > 1e9 else 0.0   (1e9 = 5^9 * 2^9)
mag_penalty(st) ==
    IF Exceeds([m |-> Abs(st.sum) \div Max(1, st.n), x |-> st.u], 1953125, 9)
    THEN -(ScoreUnit \div 10) ELSE 0

plausibility_score(values, target_n) ==
    IF values = << >> THEN -2 * ScoreUnit
    ELSE LET n_total == Len(values)
             n_finite == Len(SelectSeq(values, IsFinite))
             frac_finite == (n_finite * ScoreUnit) \div Max(1, n_total)
         IN  IF n_finite * 100 < 90 * Max(1, n_total)
             THEN frac_finite - 2 * ScoreUnit
             ELSE LET st == safe_stats(values)
                  IN  frac_finite + var_term(st) + length_penalty(n_total, target_n)
                        + mag_penalty(st)

(***************************************************************************)
(* Candidate search (analog)                                               *)
(***************************************************************************)

CodecNames == <<"float32", "float64", "int16*scale", "varint_delta*scale">>

GridSkips == 9

HEADER_GUESS_LIMIT == 12

FallbackVarintCap == 10000000

ScoreSubset == 10000

PeriodLo == 50

PeriodHi == 60000

NoBest == [set |-> FALSE, score |-> 0, name |-> "", vals |-> << >>, period |-> 0, skip |-> 0]

\* cands[ci] of the header-found grid at one skip (ci from 1)
GridCandidate(buf, hend, expn, sc, skip, ci) ==
    LET payload == Slice(buf, hend + skip)
    IN  CASE ci = 1 -> decode_float32(payload, expn)
          [] ci = 2 -> decode_float64(payload, expn)
          [] ci = 3 -> decode_int16_scaled(payload, expn, sc)
          [] OTHER -> decode_varint_delta(payload, expn, sc)

\* if best is None or score > best[0]: best = (score, name, vals, skip)
Better(score, bst) == ~bst.set \/ score > bst.score

\* position c (from 1) of an iteration with the codec list as the outer loop and
\* the nskips skips as the inner one
GridOrderCodecOuter(c, nskips) ==
    [skip |-> (c - 1) % nskips, ci |-> ((c - 1) \div nskips) + 1]

\* position c (from 1) of the iteration "for skip in range(0, nskips): for name, vals
\* in cands": the skip is the outer loop, the codec list the inner one
GridOrder(c, nskips) ==
    [skip |-> (c - 1) \div Len(CodecNames), ci |-> ((c - 1) % Len(CodecNames)) + 1]

\* the candidates in iteration order, each with its score against exp_n
GridCandidates(buf, hend, expn, sc) ==
    ListOf([c \in 1..(GridSkips * Len(CodecNames)) |->
              LET o == GridOrder(c, GridSkips)
                  vals == GridCandidate(buf, hend, expn, sc, o.skip, o.ci)
              IN  [set |-> TRUE, score |-> plausibility_score(vals, expn),
                   name |-> CodecNames[o.ci], vals |-> vals, period |-> 0,
                   skip |-> o.skip, ok |-> TRUE]],
           GridSkips * Len(CodecNames))

\* the running best of the loop over cands from position c on
RECURSIVE KeepBest(_, _, _)
KeepBest(cands, c, bst) ==
    IF c > Len(cands) THEN bst
    ELSE LET cand == cands[c]
         IN  IF cand.ok /\ Better(cand.score, bst)
             THEN KeepBest(cands, c + 1, [f \in DOMAIN NoBest |-> cand[f]])
             ELSE KeepBest(cands, c + 1, bst)

GridSearch(buf, hend, expn, sc) == KeepBest(GridCandidates(buf, hend, expn, sc), 1, NoBest)

\* the forced decoders of --codec, always at skip 0
ForcedIndex(cd) == CASE cd = "f32" -> 1 [] cd = "f64" -> 2 [] cd = "i16" -> 3 [] OTHER -> 4

\* cands[ci] of the header-not-found fallback at one skip
FallbackCandidate(buf, sc, skip, ci) ==
    LET payload == Slice(buf, skip)
    IN  CASE ci = 1 -> decode_float32(payload, Len(payload) \div 4)
          [] ci = 2 -> decode_float64(payload, Len(payload) \div 8)
          [] ci = 3 -> decode_int16_scaled(payload, Len(payload) \div 2, sc)
          [] OTHER -> decode_varint_delta(payload, FallbackVarintCap, sc)

\* round(a / n) of Python: to nearest, ties to even (n >= 1)
RoundHalfEven(a, n) ==
    LET q == a \div n
        r == a - q * n
    IN  IF 2 * r < n THEN q
        ELSE IF 2 * r > n THEN q + 1
        ELSE IF q % 2 = 0 THEN q ELSE q + 1

\* max(1, round(total_ms / max(1, n)))
InferredPeriod(total_ms, n) == Max(1, RoundHalfEven(total_ms, Max(1, n)))

\* the test without its lower bound
PlausiblePeriodUpper(p) == p <= PeriodHi

\* 50 <= inferred <= 60000
PlausiblePeriod(p) == PeriodLo <= p /\ p <= PeriodHi

\* position c (from 1) of "for skip in range(0, HEADER_GUESS_LIMIT): for name, vals in cands"
FallbackOrder(c) == GridOrder(c, HEADER_GUESS_LIMIT)

\* the candidates in iteration order; ok: not skipped by "if n <= 0: continue" and
\* with an inferred period in 50..60000
FallbackCandidates(buf, total_ms, sc) ==
    ListOf([c \in 1..(HEADER_GUESS_LIMIT * Len(CodecNames)) |->
              LET o == FallbackOrder(c)
                  vals == FallbackCandidate(buf, sc, o.skip, o.ci)
                  n == Len(vals)
                  inferred == InferredPeriod(total_ms, n)
                  ok == n > 0 /\ PlausiblePeriod(inferred)
              IN  [set |-> TRUE,
                   score |-> IF ok
                             THEN plausibility_score(Prefix(vals, Min(n, ScoreSubset)), n)
                             ELSE 0,
                   name |-> CodecNames[o.ci], vals |-> vals, period |-> inferred,
                   skip |-> o.skip, ok |-> ok]],
           HEADER_GUESS_LIMIT * Len(CodecNames))

FallbackSearch(buf, total_ms, sc) ==
    KeepBest(FallbackCandidates(buf, total_ms, sc), 1, NoBest)

(***************************************************************************)
(* Blocks decoded                                                          *)
(***************************************************************************)

MaxPad == 1

MaxSecs == 3

Zeros(n) == ListOf([j \in 1..n |-> 0], n)

U32Bytes(x) == <<x % 256, (x \div 256) % 256, (x \div 65536) % 256, x \div 16777216>>

\* little-endian doubles: 45000.0, 35000.0, 55000.0, the double just below 35000.0,
\* the double just above 55000.0
HdrMid == <<0, 0, 0, 0, 0, 249, 229, 64>>

HdrLo == <<0, 0, 0, 0, 0, 23, 225, 64>>

HdrHi == <<0, 0, 0, 0, 0, 219, 234, 64>>

HdrBelow == <<255, 255, 255, 255, 255, 22, 225, 64>>

HdrAbove == <<1, 0, 0, 0, 0, 219, 234, 64>>

Headers == {HdrMid, HdrLo, HdrHi, HdrBelow, HdrAbove}

Periods == {0, 500, 1000, 4000}

EndTimes == {1000 * s : s \in (-1)..MaxSecs}

\* the float32 values 1.5, -2.25, 3.0
PayloadF32 == <<0, 0, 192, 63, 0, 0, 16, 192, 0, 0, 64, 64>>

\* 24 bytes that are constant as float32, float64 and int16 at every alignment and
\* a rising sequence of 24 values as varint deltas
PayloadDelta == <<2, 0, 2, 0, 2, 0, 2, 0, 2, 0, 2, 0, 2, 0, 2, 0, 2, 0, 2, 0, 2, 0, 2, 0>>

DcPayloads == {<<5>>, <<5, 255>>, <<170, 1, 128>>, << >>}

AnalogPayloads ==
    { PayloadF32,
      Zeros(12),
      <<2, 0>>,
      <<0, 0, 192, 127, 0, 0, 128, 255, 0, 0, 64, 64, 1, 2, 3, 4>>,
      <<0, 1, 0, 128, 255, 0, 240, 255, 0, 0, 0, 0, 0, 0, 0, 0>>,
      <<2, 3, 128, 1, 255, 255, 255, 255, 255, 255, 255, 255, 255, 255, 1, 0, 0>>,
      << >> }

Tails == {Zeros(k) : k \in 0..MaxPad}

\* header variety: a date double (or not) behind 0 or 5 leading bytes, a second
\* date double further on
BlocksHeader(payloads) ==
    { Zeros(p) \o h \o U32Bytes(per) \o pl \o tl :
        p \in {0, 5}, h \in Headers, per \in {500, 1000}, pl \in payloads, tl \in Tails }
    \cup { Zeros(5) \o h \o U32Bytes(500) \o <<1, 2, 3>> \o HdrMid \o tl :
        h \in Headers, tl \in Tails }

\* the edge of the search window
BlocksLimit(limit, payloads) ==
    { Zeros(p) \o HdrMid \o U32Bytes(1000) \o pl :
        p \in {limit - 1, limit}, pl \in payloads }

\* period variety and truncated period fields
BlocksPeriod(payloads) ==
    { HdrMid \o U32Bytes(per) \o pl \o tl : per \in Periods, pl \in payloads, tl \in Tails }
    \cup { HdrMid \o Zeros(k) : k \in 0..3 }
    \cup { Zeros(1) \o HdrMid \o Zeros(k) : k \in 1..3 }

\* no date double at all
BlocksBare(payloads) == { pl \o tl : pl \in payloads, tl \in Tails }

\* a period short enough for the time span to outlast a one-byte payload
BlocksFast(payloads) == { HdrMid \o U32Bytes(250) \o pl : pl \in payloads }

DcBlocks ==
    BlocksHeader(DcPayloads) \cup BlocksLimit(SearchLimitDC, DcPayloads)
      \cup BlocksPeriod(DcPayloads) \cup BlocksBare(DcPayloads)
      \cup BlocksFast(DcPayloads)

AnalogBlocks ==
    BlocksHeader({PayloadF32}) \cup BlocksLimit(SearchLimitAnalog, {PayloadF32})
      \cup BlocksPeriod(AnalogPayloads)
      \cup BlocksBare({PayloadF32, PayloadDelta, <<2, 0>>, << >>})

\* the blocks decoded with a forced --codec
ForcedBlocks == BlocksPeriod(AnalogPayloads) \cup BlocksBare({PayloadF32})

Codecs == {"auto", "f32", "f64", "i16", "varint"}

Init ==
    /\ tool \in {"dc", "analog"}
    /\ msb_first \in (IF tool = "dc" THEN BOOLEAN ELSE {FALSE})
    /\ codec \in (IF tool = "analog" THEN Codecs ELSE {"auto"})
    /\ scale \in (IF codec \in {"i16", "varint"} THEN {1, 2} ELSE {1})
    /\ b \in (IF tool = "dc" THEN DcBlocks
              ELSE IF codec = "auto" THEN AnalogBlocks ELSE ForcedBlocks)
    /\ tb = 0
    /\ te \in EndTimes
    /\ pc = "SearchHeader"
    /\ off = None
    /\ period_ms = 0
    /\ header_end = 0
    /\ exp_n = 0
    /\ chosen = 0
    /\ best = NoBest
    /\ picked = << >>
    /\ pname = ""
    /\ bi = 0
    /\ bk = 0
    /\ t = 0
    /\ rows = << >>
    /\ outcome = ""
    /\ blocks = <<[b |-> b, tb |-> tb, te |-> te]>>
    /\ blk = 1
    /\ done = << >>
    /\ arg = << >>
    /\ res = << >>

(***************************************************************************)
(* BlockDecoder                                                            *)
(***************************************************************************)

SearchLimit == IF tool = "dc" THEN SearchLimitDC ELSE SearchLimitAnalog

\* the same with a failed block ending the run: the loop is left without a record
FinishAbort(o) ==
    /\ pc' = IF o = "Emitted" THEN "Done" ELSE "End"
    /\ outcome' = o

\* the block is over: continue with the next one
Finish(o) ==
    /\ pc' = "Done"
    /\ outcome' = o

\* the search with every block without header dropped, analog ones too
SearchHeaderDrop ==
    /\ pc = "SearchHeader"
    /\ off' = find_excel_serial_double(b, SearchLimit)
    /\ IF off' # None THEN pc' = "ReadPeriod" /\ outcome' = outcome
       ELSE Finish("HeaderNotFound")
    /\ UNCHANGED <<config, runv, fnv, period_ms, header_end, exp_n, chosen, best, picked,
                   pname, bi, bk, t, rows>>

\* off, _ = find_excel_serial_double(b); a digital block without header is dropped,
\* an analog one goes to the fallback
SearchHeader ==
    /\ pc = "SearchHeader"
    /\ off' = find_excel_serial_double(b, SearchLimit)
    /\ IF off' # None THEN pc' = "ReadPeriod" /\ outcome' = outcome
       ELSE IF tool = "dc" THEN Finish("HeaderNotFound")
       ELSE pc' = "InferFallback" /\ outcome' = outcome
    /\ UNCHANGED <<config, runv, fnv, period_ms, header_end, exp_n, chosen, best, picked, pname,
                   bi, bk, t, rows>>

\* the period field, header_end and the expected sample count
ReadPeriod ==
    /\ pc = "ReadPeriod"
    /\ IF HeaderTruncated(b, off)
       THEN /\ Finish("TruncatedHeader")
            /\ UNCHANGED <<period_ms, header_end, exp_n>>
       ELSE /\ period_ms' = U32LE(b, off + 8)
            /\ header_end' = (off + 8) + 4
            /\ exp_n' = ExpectedCount(te - tb, period_ms')
            /\ pc' = IF tool = "dc" THEN "Synchronize"
                     ELSE IF codec # "auto" THEN "Forced" ELSE "ScoreGrid"
            /\ outcome' = outcome
    /\ UNCHANGED <<config, runv, fnv, off, chosen, best, picked, pname, bi, bk, t, rows>>

\* digital: the alignment probe, then payload = b[header_end + chosen:]
Synchronize ==
    /\ pc = "Synchronize"
    /\ chosen' = DcChooseSkip(b, header_end, exp_n)
    /\ picked' = Slice(b, header_end + chosen')
    /\ t' = tb
    /\ bi' = 0
    /\ bk' = 0
    /\ pc' = "DcBits"
    /\ UNCHANGED <<config, runv, fnv, off, period_ms, header_end, exp_n, best, pname, rows, outcome>>

\* the inner loop with "if t > te: break": a sample is written at t = te
DcEmitBitLate ==
    /\ pc = "DcBits"
    /\ bi < Len(picked)
    /\ bk < 8
    /\ ~(t > te)
    /\ rows' = Append(rows, <<t, DcBit(picked[bi + 1], bk, msb_first)>>)
    /\ t' = t + period_ms
    /\ bk' = bk + 1
    /\ UNCHANGED <<config, runv, fnv, pc, off, period_ms, header_end, exp_n, chosen, best, picked,
                   pname, bi, outcome>>

\* the inner loop writing no more than the expected sample count
DcEmitBitExpected ==
    /\ pc = "DcBits"
    /\ bi < Len(picked)
    /\ bk < 8
    /\ ~(t >= te)
    /\ rows' = IF Len(rows) < exp_n
               THEN Append(rows, <<t, DcBit(picked[bi + 1], bk, msb_first)>>)
               ELSE rows
    /\ t' = t + period_ms
    /\ bk' = bk + 1
    /\ UNCHANGED <<config, runv, fnv, pc, off, period_ms, header_end, exp_n, chosen, best, picked,
                   pname, bi, outcome>>

\* digital inner loop: if t >= te: break; rows.append((t, bit)); t += period
DcEmitBit ==
    /\ pc = "DcBits"
    /\ bi < Len(picked)
    /\ bk < 8
    /\ ~(t >= te)
    /\ rows' = Append(rows, <<t, DcBit(picked[bi + 1], bk, msb_first)>>)
    /\ t' = t + period_ms
    /\ bk' = bk + 1
    /\ UNCHANGED <<config, runv, fnv, pc, off, period_ms, header_end, exp_n, chosen, best, picked,
                   pname, bi, outcome>>

\* digital: the inner loop is over (8 bits done, or break); if t >= te: break
DcEndByte ==
    /\ pc = "DcBits"
    /\ bi < Len(picked)
    /\ (bk >= 8 \/ t >= te)
    /\ IF t >= te
       THEN Finish("Emitted") /\ UNCHANGED <<bi, bk>>
       ELSE bi' = bi + 1 /\ bk' = 0 /\ UNCHANGED <<pc, outcome>>
    /\ UNCHANGED <<config, runv, fnv, off, period_ms, header_end, exp_n, chosen, best, picked,
                   pname, t, rows>>

\* digital: the payload is exhausted
DcEndPayload ==
    /\ pc = "DcBits"
    /\ bi >= Len(picked)
    /\ Finish("Emitted")
    /\ UNCHANGED <<config, runv, fnv, off, period_ms, header_end, exp_n, chosen, best, picked,
                   pname, bi, bk, t, rows>>

StartEmit(name, vals) ==
    /\ pname' = name
    /\ picked' = vals
    /\ t' = tb
    /\ bi' = 0
    /\ pc' = "Emit"
    /\ outcome' = outcome

\* analog, --codec given: the one decoder at skip 0, whatever it yields
ForcedCodec ==
    /\ pc = "Forced"
    /\ StartEmit(CodecNames[ForcedIndex(codec)],
                 GridCandidate(b, header_end, exp_n, scale, 0, ForcedIndex(codec)))
    /\ UNCHANGED <<config, runv, fnv, off, period_ms, header_end, exp_n, chosen, best, bk, rows>>

\* the grid without "best = None" before it: the search starts from the winner the
\* block before left in best
ScoreGridStale ==
    /\ pc = "ScoreGrid"
    /\ best' = KeepBest(GridCandidates(b, header_end, exp_n, scale), 1, best)
    /\ IF best'.set /\ best'.vals # << >>
       THEN /\ StartEmit(best'.name, best'.vals)
            /\ chosen' = best'.skip
       ELSE /\ Finish("NoPlausibleCodec")
            /\ UNCHANGED <<picked, pname, bi, t, chosen>>
    /\ UNCHANGED <<config, runv, fnv, off, period_ms, header_end, exp_n, bk, rows>>

\* analog, auto: the codec x skip grid; if best and best[2]: pick it, else skip the block
ScoreGrid ==
    /\ pc = "ScoreGrid"
    /\ best' = GridSearch(b, header_end, exp_n, scale)
    /\ IF best'.set /\ best'.vals # << >>
       THEN /\ StartEmit(best'.name, best'.vals)
            /\ chosen' = best'.skip
       ELSE /\ Finish("NoPlausibleCodec")
            /\ UNCHANGED <<picked, pname, bi, t, chosen>>
    /\ UNCHANGED <<config, runv, fnv, off, period_ms, header_end, exp_n, bk, rows>>

\* analog, no header: infer the period from the payload length; if not best: skip
InferFallback ==
    /\ pc = "InferFallback"
    /\ best' = FallbackSearch(b, te - tb, scale)
    /\ IF best'.set
       THEN /\ StartEmit(best'.name, best'.vals)
            /\ period_ms' = best'.period
            /\ chosen' = best'.skip
       ELSE /\ Finish("NoPlausibleCodec")
            /\ UNCHANGED <<picked, pname, bi, t, period_ms, chosen>>
    /\ UNCHANGED <<config, runv, fnv, off, header_end, exp_n, bk, rows>>

\* the loop with t advanced before the row is written
EmitSampleAdvanceFirst ==
    /\ pc = "Emit"
    /\ bi < Len(picked)
    /\ ~(t >= te)
    /\ rows' = Append(rows, <<t + period_ms, picked[bi + 1]>>)
    /\ t' = t + period_ms
    /\ bi' = bi + 1
    /\ UNCHANGED <<config, runv, fnv, pc, off, period_ms, header_end, exp_n, chosen, best, picked,
                   pname, bk, outcome>>

\* analog loop: if t >= te: break; vv = float(v); writerow([t, vv]); t += period
EmitSample ==
    /\ pc = "Emit"
    /\ bi < Len(picked)
    /\ ~(t >= te)
    /\ rows' = Append(rows, <<t, picked[bi + 1]>>)
    /\ t' = t + period_ms
    /\ bi' = bi + 1
    /\ UNCHANGED <<config, runv, fnv, pc, off, period_ms, header_end, exp_n, chosen, best, picked,
                   pname, bk, outcome>>

\* analog loop over: the values are exhausted, or break
EmitStop ==
    /\ pc = "Emit"
    /\ (bi >= Len(picked) \/ t >= te)
    /\ Finish("Emitted")
    /\ UNCHANGED <<config, runv, fnv, off, period_ms, header_end, exp_n, chosen, best, picked,
                   pname, bi, bk, t, rows>>

Next ==
    \/ SearchHeader
    \/ ReadPeriod
    \/ Synchronize
    \/ DcEmitBit
    \/ DcEndByte
    \/ DcEndPayload
    \/ ForcedCodec
    \/ ScoreGrid
    \/ InferFallback
    \/ EmitSample
    \/ EmitStop

Spec == Init /\ [][Next]_vars

(***************************************************************************)
(* The run over the blocks of one tag                                      *)
(***************************************************************************)

MaxBlocks == 2

\* digital blocks of a run: the scenario block, a block without date double, a
\* truncated header, a header behind five leading bytes with fewer bits than the
\* time span holds
RunBlocksDc ==
    { [b |-> HdrMid \o U32Bytes(500) \o <<5>>, tb |-> 0, te |-> 2000],
      [b |-> <<5, 5, 5>>, tb |-> 0, te |-> 1000],
      [b |-> HdrMid \o Zeros(3), tb |-> 1000, te |-> 2000],
      [b |-> Zeros(5) \o HdrLo \o U32Bytes(100) \o <<170>>, tb |-> 1000, te |-> 3000] }

\* analog blocks of a run: the scenario block, a block without date double, a
\* truncated header, a constant payload, an empty block
RunBlocksAnalog ==
    { [b |-> HdrMid \o U32Bytes(1000) \o PayloadF32, tb |-> 0, te |-> 3000],
      [b |-> PayloadF32, tb |-> 1000, te |-> 3000],
      [b |-> HdrMid \o Zeros(3), tb |-> 0, te |-> 1000],
      [b |-> HdrMid \o U32Bytes(1000) \o Zeros(12), tb |-> 0, te |-> 3000],
      [b |-> << >>, tb |-> 1000, te |-> 2000] }

\* the lists of 1..MaxBlocks blocks
BlockLists(set) == UNION { [1..n -> set] : n \in 1..MaxBlocks }

RunInit ==
    /\ tool \in {"dc", "analog"}
    /\ msb_first \in (IF tool = "dc" THEN BOOLEAN ELSE {FALSE})
    /\ codec \in (IF tool = "analog" THEN Codecs ELSE {"auto"})
    /\ scale \in (IF codec \in {"i16", "varint"} THEN {1, 2} ELSE {1})
    /\ blocks \in BlockLists(IF tool = "dc" THEN RunBlocksDc ELSE RunBlocksAnalog)
    /\ blk = 1
    /\ done = << >>
    /\ b = blocks[1].b
    /\ tb = blocks[1].tb
    /\ te = blocks[1].te
    /\ pc = "SearchHeader"
    /\ off = None
    /\ period_ms = 0
    /\ header_end = 0
    /\ exp_n = 0
    /\ chosen = 0
    /\ best = NoBest
    /\ picked = << >>
    /\ pname = ""
    /\ bi = 0
    /\ bk = 0
    /\ t = 0
    /\ rows = << >>
    /\ outcome = ""
    /\ arg = << >>
    /\ res = << >>

\* what the block just decoded came to: its outcome and, if it was decoded, the
\* period, the codec and the rows written
Result ==
    [b |-> b, tb |-> tb, te |-> te, outcome |-> outcome,
     period |-> IF outcome = "Emitted" THEN period_ms ELSE None,
     name |-> IF outcome = "Emitted" /\ tool = "analog" THEN pname ELSE "",
     rows |-> rows]

\* the for loop takes the next block; the locals of the loop body keep the values
\* the block before left in them
NextBlock ==
    /\ pc = "Done"
    /\ blk < Len(blocks)
    /\ done' = Append(done, Result)
    /\ blk' = blk + 1
    /\ b' = blocks[blk + 1].b
    /\ tb' = blocks[blk + 1].tb
    /\ te' = blocks[blk + 1].te
    /\ pc' = "SearchHeader"
    /\ rows' = << >>
    /\ outcome' = ""
    /\ UNCHANGED <<tool, msb_first, codec, scale, blocks, fnv, off, period_ms, header_end,
                   exp_n, chosen, best, picked, pname, bi, bk, t>>

\* the for loop is exhausted
EndRun ==
    /\ pc = "Done"
    /\ blk = Len(blocks)
    /\ done' = Append(done, Result)
    /\ pc' = "End"
    /\ UNCHANGED <<config, blocks, blk, fnv, off, period_ms, header_end, exp_n, chosen,
                   best, picked, pname, bi, bk, t, rows, outcome>>

RunNext ==
    \/ Next
    \/ NextBlock
    \/ EndRun

RunSpec == RunInit /\ [][RunNext]_vars

\* the steps of the run other than the three candidate selections
RunStep ==
    \/ SearchHeader
    \/ ReadPeriod
    \/ Synchronize
    \/ DcEmitBit
    \/ DcEndByte
    \/ DcEndPayload
    \/ EmitSample
    \/ EmitStop
    \/ NextBlock
    \/ EndRun

\* the three candidate selections; each is enabled exactly at its own pc and leaves it
Selection == ForcedCodec \/ ScoreGrid \/ InferFallback

AtSelection == pc \in {"Forced", "ScoreGrid", "InferFallback"}

\* The run is one sequential program: it keeps taking steps until the loop over the
\* blocks is exhausted.  That is weak fairness of every step; for the selections it
\* is written with their enabling condition (WF_vars(Selection) is
\* []<>~ENABLED <<Selection>>_vars \/ []<><<Selection>>_vars).
LiveSpec ==
    /\ RunSpec
    /\ WF_vars(RunStep)
    /\ ([]<>(~AtSelection) \/ []<><<Selection>>_vars)

(***************************************************************************)
(* Timestamp reconstruction                                                *)
(***************************************************************************)

\* the i-th sample (from 1) a digital payload yields: bit (i-1) mod 8 of byte (i-1) div 8
DcSample(i) == DcBit(picked[((i - 1) \div 8) + 1], (i - 1) % 8, msb_first)

\* C1: in every block (digital, analog with header, forced codec, fallback) every
\* emitted sample has a timestamp strictly below the block's end time, and two
\* consecutive samples differ by exactly period_ms.
C1_TimestampBound ==
    /\ \A i \in 1..Len(rows) : rows[i][1] < te
    /\ \A i \in 1..(Len(rows) - 1) : rows[i + 1][1] - rows[i][1] = period_ms

\* a fallback block (period inferred) that wrote at least three samples
C1_Witness == tool = "analog" /\ off = None /\ pc = "Done" /\ Len(rows) >= 3 /\ period_ms > 0

\* C2: the timestamps of one block are strictly increasing, whatever period the
\* header holds, period_ms = 0 included.
C2_StrictlyIncreasing ==
    \A i \in 1..(Len(rows) - 1) : rows[i][1] < rows[i + 1][1]

\* C3: the samples written are the selected values in order, the i-th (from 0) at
\* start_time + i * period_ms, and the output stops only at the first timestamp
\* >= end_time or when the values are exhausted: it is a prefix of the candidate.
\* The digital loop is held to the same, its values being the payload's bits.
C3_PrefixEmission ==
    /\ \A i \in 1..Len(rows) :
          /\ rows[i][1] = tb + (i - 1) * period_ms
          /\ rows[i][1] < te
          /\ rows[i][2] = IF tool = "dc" THEN DcSample(i) ELSE picked[i]
    /\ Len(rows) <= (IF tool = "dc" THEN 8 * Len(picked) ELSE Len(picked))
    /\ outcome = "Emitted" =>
          \/ Len(rows) = (IF tool = "dc" THEN 8 * Len(picked) ELSE Len(picked))
          \/ tb + Len(rows) * period_ms >= te

\* an analog block that wrote three samples carrying different values in the
\* candidate's order
C3_Witness ==
    /\ tool = "analog" /\ outcome = "Emitted" /\ Len(rows) = 3 /\ Len(picked) = 3
    /\ rows[1][2] # rows[2][2] /\ rows[2][2] # rows[3][2]

(***************************************************************************)
(* Header search and period read                                           *)
(***************************************************************************)

\* C4: the offset returned by find_excel_serial_double holds an in-range double and
\* no lower offset does (with in-range doubles at 5 and 20, 5 is returned).
C4_LowestOffset ==
    (pc # "SearchHeader" /\ off # None) =>
        /\ InDateRange(b, off)
        /\ \A i \in 0..(off - 1) : ~InDateRange(b, i)

\* in-range doubles at offsets 5 and 20, both scanned, and 5 returned
C4_Witness == pc = "Done" /\ off = 5 /\ InDateRange(b, 20) /\ Len(b) > 28

\* C5: the search returns a match whenever some offset i with 0 <= i <= len - 8 and
\* i < search_limit holds an in-range double (the last 8 bytes included), and None
\* only if there is none.
C5_EveryOffsetExamined ==
    pc # "SearchHeader" =>
        (off # None <=> \E i \in 0..(Len(b) - 8) : i < SearchLimit /\ InDateRange(b, i))

\* C6: with the header at off, the block is TruncatedHeader and writes nothing iff
\* len(buf) < off + 12; otherwise period_ms is the little-endian u32 at off+8..off+11
\* and header_end = off + 12.
C6_TruncatedHeader ==
    (pc \notin {"SearchHeader", "ReadPeriod"} /\ off # None) =>
        /\ outcome = "TruncatedHeader" <=> Len(b) < off + 12
        /\ outcome = "TruncatedHeader" => rows = << >>
        /\ Len(b) >= off + 12 =>
              /\ period_ms = b[off + 9] + 256 * b[off + 10] + 65536 * b[off + 11]
                               + 16777216 * b[off + 12]
              /\ header_end = off + 12

\* a header with exactly three bytes behind the double, reported as truncated
C6_Witness ==
    pc = "Done" /\ off # None /\ Len(b) = off + 11 /\ outcome = "TruncatedHeader"

(***************************************************************************)
(* The two scenarios                                                       *)
(***************************************************************************)

\* a date double at offset 0, period_ms = 500, the payload byte 0b00000101, decoded
\* LSB-first over 0 s .. 2 s
DigitalScenario ==
    /\ tool = "dc" /\ ~msb_first /\ tb = 0 /\ te = 2000
    /\ b \in {h \o <<244, 1, 0, 0>> \o <<5>> : h \in {HdrLo, HdrMid, HdrHi}}

\* C7: the digital scenario yields exactly the samples (0 ms, 1), (500 ms, 0),
\* (1000 ms, 1), (1500 ms, 0).
C7_DigitalScenario ==
    (DigitalScenario /\ pc = "Done") =>
        rows = << <<0, 1>>, <<500, 0>>, <<1000, 1>>, <<1500, 0>> >>

\* the scenario decoded to its end
C7_Witness == DigitalScenario /\ pc = "Done" /\ outcome = "Emitted" /\ Len(rows) = 4

\* a date double at offset 0, period_ms = 1000, the float32 values 1.5, -2.25, 3.0,
\* codec auto, scale 1, over 0 s .. 3 s
AnalogScenario ==
    /\ tool = "analog" /\ codec = "auto" /\ scale = 1 /\ tb = 0 /\ te = 3000
    /\ b \in {h \o <<232, 3, 0, 0>> \o PayloadF32 : h \in {HdrLo, HdrMid, HdrHi}}

\* C8: in the analog scenario the float32 candidate is selected and exactly the
\* samples (0 s, 1.5), (1 s, -2.25), (2 s, 3.0) are written.
C8_AnalogScenario ==
    (AnalogScenario /\ pc = "Done") =>
        /\ pname = "float32"
        /\ rows = << <<0, Fl(FALSE, 3, -1)>>, <<1000, Fl(TRUE, 9, -2)>>,
                     <<2000, Fl(FALSE, 3, 0)>> >>

(***************************************************************************)
(* Candidate selection                                                     *)
(***************************************************************************)

\* the state a search has just left: the header-found grid, or the fallback
AfterGrid ==
    /\ tool = "analog" /\ codec = "auto" /\ off # None /\ best.set
    /\ (pc = "Emit" /\ bi = 0) \/ outcome = "NoPlausibleCodec"

AfterSearch ==
    /\ tool = "analog" /\ best.set
    /\ off = None \/ codec = "auto"
    /\ (pc = "Emit" /\ bi = 0) \/ outcome = "NoPlausibleCodec"

\* the candidates the search of the current block went through
Searched ==
    IF off = None THEN SelectSeq(FallbackCandidates(b, te - tb, scale), LAMBDA c : c.ok)
    ELSE GridCandidates(b, header_end, exp_n, scale)

CodecIndex(name) == CHOOSE i \in 1..Len(CodecNames) : CodecNames[i] = name

\* C9: the grid selects the highest-scoring non-empty candidate, and the block is
\* NoPlausibleCodec iff every candidate of the grid is empty.
C9_BestNonEmpty ==
    AfterGrid =>
        LET cands == GridCandidates(b, header_end, exp_n, scale)
            nonempty == {c \in 1..Len(cands) : cands[c].vals # << >>}
        IN  /\ outcome = "NoPlausibleCodec" <=> nonempty = {}
            /\ nonempty # {} =>
                  /\ best.vals # << >>
                  /\ \A c \in nonempty : cands[c].score <= best.score

\* the candidates sharing the score of the selected one
Tied == LET cands == Searched IN {c \in 1..Len(cands) : cands[c].score = best.score}

\* C10 as stated: among the candidates sharing the maximal score the winner is the
\* first with the codec list as the outer loop and the skip as the inner loop.
C10_CodecOuterTie ==
    AfterSearch =>
        LET cands == Searched
        IN  \A c \in 1..Len(cands) :
              /\ cands[c].score <= best.score
              /\ cands[c].score = best.score =>
                    \/ CodecIndex(best.name) < CodecIndex(cands[c].name)
                    \/ /\ CodecIndex(best.name) = CodecIndex(cands[c].name)
                       /\ best.skip <= cands[c].skip

\* C10: among the candidates sharing the maximal score the winner is the first with
\* the skip as the outer loop and the codec list (float32, float64, int16-scaled,
\* varint-delta) as the inner loop.
C10_SkipOuterTie ==
    AfterSearch =>
        LET cands == Searched
        IN  \A c \in 1..Len(cands) :
              /\ cands[c].score <= best.score
              /\ cands[c].score = best.score =>
                    \/ best.skip < cands[c].skip
                    \/ /\ best.skip = cands[c].skip
                       /\ CodecIndex(best.name) <= CodecIndex(cands[c].name)

\* a tie in which a candidate of an earlier codec at a larger skip lost to the
\* selected candidate of a later codec at a smaller skip
C10_Witness ==
    /\ AfterSearch
    /\ LET cands == Searched
       IN  \E c \in Tied : /\ CodecIndex(cands[c].name) < CodecIndex(best.name)
                           /\ cands[c].skip > best.skip

(***************************************************************************)
(* Fallback inference                                                      *)
(***************************************************************************)

\* the codec/skip pairs of the fallback whose candidate is non-empty
FallbackNonEmpty ==
    { o \in (0..(HEADER_GUESS_LIMIT - 1)) \X (1..Len(CodecNames)) :
        FallbackCandidate(b, scale, o[1], o[2]) # << >> }

\* the period a candidate of the fallback would be given
FallbackPeriodOf(o) == InferredPeriod(te - tb, Len(FallbackCandidate(b, scale, o[1], o[2])))

\* a block that went through the fallback and has left it
FallbackLeft == tool = "analog" /\ off = None /\ pc \in {"Emit", "Done"}

\* C11: in the fallback a candidate whose inferred period lies outside 50..60000 ms
\* is never selected: the period that stamps the samples of a fallback block lies in
\* 50..60000 and is the inferred period of the selected candidate, and the block is
\* skipped when every non-empty candidate has an out-of-range period.
C11_FallbackPeriodBound ==
    FallbackLeft =>
        LET inrange == { o \in FallbackNonEmpty :
                           PeriodLo <= FallbackPeriodOf(o) /\ FallbackPeriodOf(o) <= PeriodHi }
        IN  /\ inrange = {} => (outcome = "NoPlausibleCodec" /\ rows = << >>)
            /\ inrange # {} =>
                  /\ outcome # "NoPlausibleCodec"
                  /\ PeriodLo <= period_ms /\ period_ms <= PeriodHi
                  /\ \E o \in inrange :
                        /\ chosen = o[1]
                        /\ pname = CodecNames[o[2]]
                        /\ picked = FallbackCandidate(b, scale, o[1], o[2])
                        /\ period_ms = FallbackPeriodOf(o)

\* a fallback block that wrote samples although one of its non-empty candidates had
\* an inferred period below 50 ms
C11_Witness ==
    /\ FallbackLeft /\ outcome = "Emitted" /\ rows # << >>
    /\ \E o \in FallbackNonEmpty : FallbackPeriodOf(o) < PeriodLo

\* a fallback block skipped because every non-empty candidate is out of range
C11_SkippedWitness ==
    /\ FallbackLeft /\ outcome = "NoPlausibleCodec" /\ FallbackNonEmpty # {}

(***************************************************************************)
(* The decoders and the scorer called on their own                         *)
(***************************************************************************)

MaxVals == 3

\* all lists of 0..MaxVals elements of set
ListsOf(set) == UNION { [1..n -> set] : n \in 0..MaxVals }

\* zigzag of a signed delta: (d << 1) ^ (d >> 63)
ZigzagEncode(d) == IF d >= 0 THEN 2 * d ELSE -2 * d - 1

\* LEB128 of u >= 0: seven bits per byte, least significant first, the top bit set
\* on every byte but the last
RECURSIVE Leb128(_)
Leb128(u) == IF u < 128 THEN <<u>> ELSE <<128 + (u % 128)>> \o Leb128(u \div 128)

RECURSIVE EncodeDeltas(_, _)
EncodeDeltas(ds, i) ==
    IF i > Len(ds) THEN << >> ELSE Leb128(ZigzagEncode(ds[i])) \o EncodeDeltas(ds, i + 1)

\* the running sums of the deltas
RunningSums(ds) == ListOf([i \in 1..Len(ds) |-> SumRange(ds, 1, i)], Len(ds))

\* deltas at the edges of the one-, two- and five-byte encodings and at the guard
Deltas == {0, 1, -1, 63, -64, 64, 8192, 1000000000, -1000000000}

\* the lists of deltas; their running sums stay within 32 bits
DeltaLists ==
    { ds \in ListsOf(Deltas) :
        Cardinality({i \in 1..Len(ds) : Abs(ds[i]) = 1000000000}) <= 2 }

\* struct.pack("<f", v) for a value a float32 holds
F32Bytes(v) ==
    LET a == Abs(v.m)
        l == BitLen(a)
        e == IF a = 0 \/ v.x + l - 1 < -126 THEN 0 ELSE v.x + l - 1 + 127
        f == IF a = 0 THEN 0
             ELSE IF e = 0 THEN a * Pow2(v.x + 149)
             ELSE a * Pow2(24 - l) - 8388608
        sign == IF v.k = "ninf" \/ (v.k = "fin" /\ v.m < 0) THEN 128 ELSE 0
    IN  CASE v.k = "nan" -> <<0, 0, 192, 127>>
          [] v.k \in {"pinf", "ninf"} -> <<0, 0, 128, sign + 127>>
          [] OTHER -> <<f % 256, (f \div 256) % 256, (e % 2) * 128 + f \div 65536,
                        sign + e \div 2>>

\* struct.pack("<d", v) for a normal double of at most 24 significant bits
F64Bytes(v) ==
    LET a == Abs(v.m)
        l == BitLen(a)
        e == IF a = 0 THEN 0 ELSE v.x + l - 1 + 1023
        f == IF a = 0 THEN 0 ELSE a * Pow2(24 - l) - 8388608
        sign == IF v.k = "ninf" \/ (v.k = "fin" /\ v.m < 0) THEN 128 ELSE 0
    IN  CASE v.k = "nan" -> <<0, 0, 0, 0, 0, 0, 248, 127>>
          [] v.k \in {"pinf", "ninf"} -> <<0, 0, 0, 0, 0, 0, 240, sign + 127>>
          [] OTHER -> <<0, 0, 0, (f % 8) * 32, (f \div 8) % 256, (f \div 2048) % 256,
                        (e % 16) * 16 + f \div 524288, sign + e \div 16>>

\* struct.pack("<h", x)
I16Bytes(x) == LET u == IF x < 0 THEN x + 65536 ELSE x IN <<u % 256, u \div 256>>

RECURSIVE PackFrom(_, _, _)
PackFrom(Pack(_), vals, i) ==
    IF i > Len(vals) THEN << >> ELSE Pack(vals[i]) \o PackFrom(Pack, vals, i + 1)

\* float32 values: 0, 1.5, -2.25, 3.0, the smallest subnormal, the largest finite
\* value, a normal value of 24 significant bits, NaN and the infinities
Floats32 ==
    { Fl(FALSE, 0, 0), Fl(FALSE, 3, -1), Fl(TRUE, 9, -2), Fl(FALSE, 3, 0),
      Fl(FALSE, 1, -149), Fl(FALSE, 16777215, 104), Fl(TRUE, 11184811, -25),
      NaN, Inf(FALSE), Inf(TRUE) }

\* doubles: 0, 1.5, -2.25, 45000.0, 3 * 2^1000, -5 * 2^-1000, NaN, +infinity
Floats64 ==
    { Fl(FALSE, 0, 0), Fl(FALSE, 3, -1), Fl(TRUE, 9, -2), Fl(FALSE, 5625, 3),
      Fl(FALSE, 3, 1000), Fl(TRUE, 5, -1000), NaN, Inf(FALSE) }

Ints16 == {-32768, -1, 0, 1, 300, 32767}

\* values of candidates handed to the scorer: 0, the smallest float32 subnormal,
\* 1.5, -2.25, and 2^41 and 2^42 (both above the clipping bound 1e12)
ScoreVals ==
    { Fl(FALSE, 0, 0), Fl(FALSE, 1, -149), Fl(FALSE, 3, -1), Fl(TRUE, 9, -2),
      Fl(FALSE, 1, 41), Fl(FALSE, 1, 42) }

\* all values of the list are the same
Constant(vals) == \A i \in 1..Len(vals) : vals[i] = vals[1]

\* the inputs of the calls
\* bytes of a block that was not written by any of the encoders: 2 and 127 are the
\* one-byte varints of the deltas 1 and -64, 255 is a continuation byte
RawBytes == {2, 127, 255}

\* count copies of unit, one after the other
Repeat(unit, count) ==
    ListOf([i \in 1..(Len(unit) * count) |-> unit[((i - 1) % Len(unit)) + 1]],
           Len(unit) * count)

\* every byte string of at most MaxVals + 2 raw bytes, and ten continuation bytes
\* before a final one (a varint that outgrows 64 bits)
RawPayloads ==
    UNION { [1..n -> RawBytes] : n \in 0..(MaxVals + 2) }
        \cup { Repeat(<<255>>, 10) \o <<2>> }

\* 1001 deltas of 1e9 (or of -1e9), one after the other: each passes the delta
\* guard and the last takes the running base beyond 1e12
GuardPayloads ==
    { Repeat(EncodeDeltas(<<d>>, 1), 1001) : d \in {1000000000, -1000000000} }

\* the calls made: fn is the function called, or "raw" for a decoder called on
\* bytes that no encoder wrote, or "pair" for two candidates scored side by side
Fns == {"varint", "f32", "f64", "i16", "score", "raw", "pair"}

FnArgs(fn) ==
    CASE fn = "varint" ->
           { [fn |-> "varint", ints |-> ds, bytes |-> EncodeDeltas(ds, 1), n |-> Len(ds), sc |-> 1] :
           ds \in DeltaLists }
      [] fn = "f32" ->
           { [fn |-> "f32", vals |-> vs, bytes |-> PackFrom(F32Bytes, vs, 1), n |-> Len(vs),
               sc |-> 1] : vs \in ListsOf(Floats32) }
      [] fn = "f64" ->
           { [fn |-> "f64", vals |-> vs, bytes |-> PackFrom(F64Bytes, vs, 1), n |-> Len(vs),
               sc |-> 1] : vs \in ListsOf(Floats64) }
      [] fn = "i16" ->
           { [fn |-> "i16", ints |-> vs, bytes |-> PackFrom(I16Bytes, vs, 1), n |-> Len(vs),
               sc |-> sc] : vs \in ListsOf(Ints16), sc \in {1, 2} }
      [] fn = "score" ->
           { [fn |-> "score", vals |-> vs, bytes |-> << >>, n |-> n, sc |-> 1] :
               vs \in ListsOf(ScoreVals \cup {NaN}), n \in 0..(MaxVals + 1) }
      [] fn = "raw" ->
           { [fn |-> "raw", dec |-> d, bytes |-> p, n |-> n, sc |-> 1] :
               d \in {"f32", "f64", "i16", "varint"}, p \in RawPayloads,
               n \in 0..(MaxVals + 1) }
           \cup { [fn |-> "raw", dec |-> "varint", bytes |-> p, n |-> Len(p), sc |-> sc] :
               p \in GuardPayloads, sc \in {1, 2} }
      [] OTHER ->
           { [fn |-> "pair", pairs |-> <<Repeat(<<c>>, Len(v)), v>>, bytes |-> << >>,
               n |-> Len(v), sc |-> 1] :
               c \in ScoreVals, v \in {w \in ListsOf(ScoreVals) : ~Constant(w)} }

FnInit ==
    /\ \E fn \in Fns : arg \in FnArgs(fn)
    /\ res = << >>
    /\ pc = "Call"
    /\ tool = "analog"
    /\ msb_first = FALSE
    /\ codec = "auto"
    /\ scale = arg.sc
    /\ b = arg.bytes
    /\ tb = 0
    /\ te = 0
    /\ blocks = << >>
    /\ blk = 0
    /\ done = << >>
    /\ off = None
    /\ period_ms = 0
    /\ header_end = 0
    /\ exp_n = arg.n
    /\ chosen = 0
    /\ best = NoBest
    /\ picked = << >>
    /\ pname = ""
    /\ bi = 0
    /\ bk = 0
    /\ t = 0
    /\ rows = << >>
    /\ outcome = ""

Return(v) ==
    /\ res' = v
    /\ pc' = "Returned"
    /\ UNCHANGED <<config, runv, arg, off, period_ms, header_end, exp_n, chosen, best,
                   picked, pname, bi, bk, t, rows, outcome>>

\* the decoder a call is made to
Decoder == IF arg.fn = "raw" THEN arg.dec ELSE arg.fn

\* decode_varint_delta(payload, n, scale)
CallVarint ==
    /\ pc = "Call"
    /\ arg.fn = "varint" \/ (arg.fn = "raw" /\ arg.dec = "varint")
    /\ Return(decode_varint_delta(b, exp_n, scale))

\* decode_float32(payload, n), decode_float64(payload, n), decode_int16_scaled(payload, n, scale)
CallFixed ==
    /\ pc = "Call"
    /\ arg.fn \in {"f32", "f64", "i16"} \/ (arg.fn = "raw" /\ arg.dec # "varint")
    /\ Return(CASE Decoder = "f32" -> decode_float32(b, exp_n)
                 [] Decoder = "f64" -> decode_float64(b, exp_n)
                 [] OTHER -> decode_int16_scaled(b, exp_n, scale))

\* plausibility_score(values, target_n)
CallScore ==
    /\ pc = "Call"
    /\ arg.fn = "score"
    /\ Return(<<plausibility_score(arg.vals, exp_n)>>)

\* plausibility_score on two candidates with the same target
CallScorePair ==
    /\ pc = "Call"
    /\ arg.fn = "pair"
    /\ Return(<<plausibility_score(arg.pairs[1], exp_n),
                plausibility_score(arg.pairs[2], exp_n)>>)

FnNext ==
    \/ CallVarint
    \/ CallFixed
    \/ CallScore
    \/ CallScorePair

FnSpec == FnInit /\ [][FnNext]_vars

(***************************************************************************)
(* One block decoded on its own                                            *)
(***************************************************************************)

\* the rows of "for v in vals: if t >= te: break; write (t, v); t += period" from
\* the value at index i on
RECURSIVE EmitFrom(_, _, _, _, _)
EmitFrom(vals, i, tt, t1, p) ==
    IF i > Len(vals) \/ tt >= t1 THEN << >>
    ELSE << <<tt, vals[i]>> >> \o EmitFrom(vals, i + 1, tt + p, t1, p)

\* the bits of a digital payload in the order the loops go through them
DcBitsOf(payload, msb) ==
    ListOf([i \in 1..(8 * Len(payload)) |->
              DcBit(payload[((i - 1) \div 8) + 1], (i - 1) % 8, msb)], 8 * Len(payload))

Skipped(bl, o) ==
    [b |-> bl.b, tb |-> bl.tb, te |-> bl.te, outcome |-> o, period |-> None, name |-> "",
     rows |-> << >>]

Decoded(bl, p, name, vals) ==
    [b |-> bl.b, tb |-> bl.tb, te |-> bl.te, outcome |-> "Emitted", period |-> p,
     name |-> name, rows |-> EmitFrom(vals, 1, bl.tb, bl.te, p)]

\* decode_block (digital) and the body of the per-block loop (analog) as a function of
\* the block and the configuration alone
BlockResult(bl) ==
    LET o == find_excel_serial_double(bl.b, SearchLimit)
        total_ms == bl.te - bl.tb
    IN  IF o = None
        THEN IF tool = "dc" THEN Skipped(bl, "HeaderNotFound")
             ELSE LET bst == FallbackSearch(bl.b, total_ms, scale)
                  IN  IF bst.set THEN Decoded(bl, bst.period, bst.name, bst.vals)
                      ELSE Skipped(bl, "NoPlausibleCodec")
        ELSE IF HeaderTruncated(bl.b, o) THEN Skipped(bl, "TruncatedHeader")
        ELSE LET p == U32LE(bl.b, o + 8)
                 hend == (o + 8) + 4
                 n == ExpectedCount(total_ms, p)
             IN  IF tool = "dc"
                 THEN Decoded(bl, p, "",
                              DcBitsOf(Slice(bl.b, hend + DcChooseSkip(bl.b, hend, n)),
                                       msb_first))
                 ELSE IF codec # "auto"
                 THEN Decoded(bl, p, CodecNames[ForcedIndex(codec)],
                              GridCandidate(bl.b, hend, n, scale, 0, ForcedIndex(codec)))
                 ELSE LET bst == GridSearch(bl.b, hend, n, scale)
                      IN  IF bst.set /\ bst.vals # << >>
                          THEN Decoded(bl, p, bst.name, bst.vals)
                          ELSE Skipped(bl, "NoPlausibleCodec")

\* every block of the list has been processed once, in input order
RunInOrder ==
    /\ Len(done) = Len(blocks)
    /\ \A i \in 1..Len(blocks) :
          /\ done[i].b = blocks[i].b
          /\ done[i].tb = blocks[i].tb
          /\ done[i].te = blocks[i].te

\* the decodable blocks of the list have their samples in the output
RunEmitted ==
    \A i \in 1..Len(blocks) :
        BlockResult(blocks[i]).outcome = "Emitted" =>
            (i <= Len(done) /\ done[i].rows = BlockResult(blocks[i]).rows)

\* C12: a block that fails (no header, truncated header, no plausible codec) never
\* aborts the run: the run comes to its end with every block processed exactly once
\* in input order and the samples of every decodable block written, whichever
\* blocks failed before or after it.
C12_EveryBlockProcessed == <>[](IF pc = "End" THEN RunInOrder /\ RunEmitted ELSE FALSE)

\* a finished run of two blocks in which the first failed and the second wrote samples
C12_Witness ==
    /\ pc = "End" /\ Len(done) = 2
    /\ done[1].outcome \in {"HeaderNotFound", "TruncatedHeader", "NoPlausibleCodec"}
    /\ done[2].outcome = "Emitted" /\ done[2].rows # << >>

(***************************************************************************)
(* Per-block state machine (analog)                                        *)
(***************************************************************************)

\* the moves of the analog decode from one position to the next
AnalogMoves ==
    { <<"SearchHeader", "ReadPeriod">>, <<"SearchHeader", "InferFallback">>,
      <<"ReadPeriod", "Done">>, <<"ReadPeriod", "ScoreGrid">>, <<"ReadPeriod", "Forced">>,
      <<"ScoreGrid", "Emit">>, <<"ScoreGrid", "Done">>, <<"Forced", "Emit">>,
      <<"InferFallback", "Emit">>, <<"InferFallback", "Done">>,
      <<"Emit", "Emit">>, <<"Emit", "Done">> }

AnalogStep ==
    /\ <<pc, pc'>> \in AnalogMoves
    \* the fallback runs only when no header was found
    /\ pc' = "InferFallback" => off' = None
    /\ pc' = "ReadPeriod" => off' # None
    \* the period is read, or the header found truncated, only after a header was found
    /\ pc = "ReadPeriod" =>
          /\ off # None
          /\ outcome' = "TruncatedHeader" <=> Len(b) < off + 12
          /\ pc' = "Done" <=> outcome' = "TruncatedHeader"
    /\ outcome' = "TruncatedHeader" => pc = "ReadPeriod"
    \* the grid is scored only after the period was read
    /\ pc' \in {"ScoreGrid", "Forced"} =>
          /\ pc = "ReadPeriod"
          /\ period_ms' = U32LE(b, off + 8)
          /\ (pc' = "Forced") = (codec # "auto")
    /\ outcome' = "NoPlausibleCodec" => pc \in {"ScoreGrid", "InferFallback"}
    \* samples are written only after a candidate was selected
    /\ pc' = "Emit" /\ pc # "Emit" =>
          /\ pname' \in {CodecNames[i] : i \in 1..Len(CodecNames)}
          /\ codec = "auto" \/ off = None => picked' # << >>
    /\ rows' # rows => (pc = "Emit" /\ pname' = pname /\ picked' = picked)
    \* one terminal outcome, given once
    /\ outcome' # outcome => (outcome = "" /\ pc' = "Done")
    /\ pc' = "Done" => outcome' \in {"Emitted", "TruncatedHeader", "NoPlausibleCodec"}
    /\ outcome' = "Emitted" => pc = "Emit"
    /\ outcome' = "Emitted" /\ (codec = "auto" \/ off = None) => rows' # << >>

\* C13: the analog decode of a block follows the state machine and ends in exactly
\* one of the outcomes samples emitted, TruncatedHeader, NoPlausibleCodec: the
\* fallback runs only without header, TruncatedHeader only after a header was found,
\* the grid only after the period was read, and samples only after a selection.
C13_StateMachine == [][tool = "analog" => AnalogStep]_vars

\* an analog block that went through the fallback and ended with samples written
C13_Witness ==
    /\ tool = "analog" /\ pc = "Done" /\ outcome = "Emitted" /\ off = None /\ rows # << >>

\* an analog block that ended as TruncatedHeader
C13_TruncatedWitness ==
    /\ tool = "analog" /\ pc = "Done" /\ outcome = "TruncatedHeader" /\ rows = << >>

\* C14: a block in which the search finds no in-range double is not dropped, digital
\* or analog: it goes through the fallback inference and has its samples written
\* whenever the fallback finds a plausible candidate.
C14_NoHeaderFallback ==
    (pc = "Done" /\ off = None) =>
        /\ outcome \in {"Emitted", "NoPlausibleCodec"}
        /\ (tool = "analog" /\ FallbackNonEmpty # {}
              /\ \E o \in FallbackNonEmpty :
                    PeriodLo <= FallbackPeriodOf(o) /\ FallbackPeriodOf(o) <= PeriodHi)
             => (outcome = "Emitted" /\ rows # << >>)

C16_ForcedCodecOnly ==
    (tool = "analog" /\ codec # "auto" /\ rows # << >>) =>
        pname = CodecNames[ForcedIndex(codec)]

(***************************************************************************)
(* Round trips and scores                                                  *)
(***************************************************************************)

\* C17: the deltas (each at most 1e9 in absolute value) encoded by zigzag and LEB128
\* and decoded by decode_varint_delta with n = their number and scale 1 give back
\* exactly their running sums.
C17_VarintRoundTrip ==
    (pc = "Returned" /\ arg.fn = "varint") =>
        res = ListOf([i \in 1..Len(arg.ints) |-> FlInt(RunningSums(arg.ints)[i])],
                     Len(arg.ints))

\* three deltas decoded, one of them at the guard bound and encoded on five bytes
C17_Witness ==
    /\ pc = "Returned" /\ arg.fn = "varint" /\ Len(res) = 3
    /\ arg.ints[2] = -1000000000 /\ Len(arg.bytes) >= 7

\* C18: n values packed as little-endian float32, float64 or signed 16-bit integers
\* and decoded by the matching decoder with the same n come back in order: the
\* floats unchanged, each integer x as x * scale.
C18_FixedRoundTrip ==
    pc = "Returned" =>
        /\ arg.fn \in {"f32", "f64"} => res = arg.vals
        /\ arg.fn = "i16" =>
              res = ListOf([i \in 1..Len(arg.ints) |-> FlInt(arg.ints[i] * arg.sc)],
                           Len(arg.ints))

\* three 16-bit integers decoded with scale 2, the first of them negative
C18_Witness ==
    /\ pc = "Returned" /\ arg.fn = "i16" /\ arg.sc = 2 /\ Len(res) = 3
    /\ arg.ints[1] = -32768 /\ res[1] = FlInt(-65536)

\* three float32 values decoded, a subnormal and a NaN among them
C18_FloatWitness ==
    /\ pc = "Returned" /\ arg.fn = "f32" /\ Len(res) = 3
    /\ res[1] = Fl(FALSE, 1, -149) /\ res[2] = NaN /\ res[3] = Fl(TRUE, 9, -2)

\* C19: of two fully finite candidates of the target length, one with all values
\* identical and one with values that differ, the one with values that differ has
\* the strictly higher score.
C19_NonZeroVarianceHigher ==
    (pc = "Returned" /\ arg.fn = "pair") => res[2] > res[1]

\* C20: the score of the empty candidate is -2.0 and no score is lower: every
\* non-empty candidate scores at least -2.0, for every target length.
C20_EmptyIsFloor ==
    (pc = "Returned" /\ arg.fn = "score") =>
        /\ arg.vals = << >> => res[1] = -2 * ScoreUnit
        /\ arg.vals # << >> => res[1] >= -2 * ScoreUnit

(***************************************************************************)
(* decode_varint_delta on arbitrary bytes                                  *)
(***************************************************************************)

\* the state of the loop of decode_varint_delta(b, exp_n, scale) at its j-th test
\* of the while condition (j from 0)
VarintAt(j) == IF j = 0 THEN VarintStart ELSE VarintDeltaRun(b, exp_n, scale, VarintStart, j)

\* the while condition
VarintLoopOn(st) ==
    Len(st.out) < exp_n /\ st.i < Len(b) /\ st.steps < VarintMaxSteps(b, exp_n)

\* the pass that follows the last value returned: "none" when the loop was left by
\* its condition, else the break taken
VarintTrip ==
    LET st == VarintAt(Len(res))
        r == read_varint_leb128(b, st.i)
        d == zigzag_decode(r.u)
    IN  IF ~VarintLoopOn(st) THEN "none"
        ELSE IF ~r.ok THEN "varint"
        ELSE IF DeltaGuard(d) THEN "delta"
        ELSE "base"

\* The deltas of the first count varints that end within the payload: acc is
\* [ds, i, stop], the deltas read so far, the offset reached, and whether the
\* payload is used up (count is halved to keep the evaluation depth logarithmic).
RECURSIVE DeltasReadFrom(_, _, _)
DeltasReadFrom(buf, acc, count) ==
    IF count <= 0 \/ acc.stop THEN acc
    ELSE IF count = 1
    THEN LET r == read_varint_leb128(buf, acc.i)
         IN  IF acc.i >= Len(buf) \/ ~r.ok THEN [acc EXCEPT !.stop = TRUE]
             ELSE [ds |-> Append(acc.ds, zigzag_decode(r.u)), i |-> r.i, stop |-> FALSE]
    ELSE DeltasReadFrom(buf, DeltasReadFrom(buf, acc, count \div 2), count - count \div 2)

DeltasRead(buf, count) ==
    DeltasReadFrom(buf, [ds |-> << >>, i |-> 0, stop |-> FALSE], count).ds

\* The running sums, times scale, of the next count deltas of ds, up to the first
\* delta or sum that is out of bounds: acc is [out, sum, stop].
RECURSIVE SumsWithinFrom(_, _, _)
SumsWithinFrom(ds, acc, count) ==
    IF count <= 0 \/ acc.stop THEN acc
    ELSE IF count = 1
    THEN LET d == ds[Len(acc.out) + 1]
             nb == BaseAdd(acc.sum, d)
         IN  IF DeltaGuard(d) \/ BaseGuard(nb) THEN [acc EXCEPT !.stop = TRUE]
             ELSE [out |-> Append(acc.out, BaseTimes(nb, scale)), sum |-> nb, stop |-> FALSE]
    ELSE SumsWithinFrom(ds, SumsWithinFrom(ds, acc, count \div 2), count - count \div 2)

SumsWithin(ds) ==
    SumsWithinFrom(ds, [out |-> << >>, sum |-> BaseZero, stop |-> FALSE], Len(ds)).out

\* |v| <= 1e12 * scale, for the scales 1 and 2 (1e12 = 244140625 * 2^12)
WithinBase(v) == IsFinite(v) /\ ~Exceeds(v, 244140625, 11 + scale)

\* C21: a guard trip in decode_varint_delta (delta beyond 1e9, base beyond 1e12,
\* varint that does not end) is no error: the call returns the running sums of the
\* deltas read before the trip, a prefix of the sums of all the deltas that leaves
\* out the offending one, and every value returned is within 1e12 * scale.
C21_GuardTripTruncates ==
    (pc = "Returned" /\ Decoder = "varint") =>
        LET ds == DeltasRead(b, exp_n)
        IN  /\ res = SumsWithin(ds)
            /\ \A j \in 1..Len(res) : WithinBase(res[j])
            /\ VarintTrip \in {"delta", "base"} <=> Len(res) < Len(ds)
            /\ VarintTrip = "varint" => Len(res) = Len(ds) /\ Len(res) < exp_n

\* 1001 deltas of -1e9 with scale 2: the base guard trips on the last one and the
\* thousand sums before it are returned, the last of them -1e12 * 2
C21_Witness ==
    /\ pc = "Returned" /\ Decoder = "varint" /\ b \in GuardPayloads /\ scale = 2
    /\ VarintTrip = "base"
    /\ Len(res) = 1000
    /\ res[777] = Fl(TRUE, 777 * 1953125, 10)
    /\ res[1000] = Fl(TRUE, 244140625, 13)

\* a varint of five bytes whose delta is beyond 1e9: nothing is returned
C21_DeltaWitness ==
    /\ pc = "Returned" /\ Decoder = "varint" /\ b = <<255, 255, 255, 255, 127>>
    /\ exp_n > 0 /\ VarintTrip = "delta" /\ res = << >>

\* two values, then a varint that the payload ends in the middle of
C21_VarintWitness ==
    /\ pc = "Returned" /\ Decoder = "varint" /\ b = <<2, 127, 255>>
    /\ VarintTrip = "varint" /\ res = <<FlInt(1), FlInt(-63)>>

\* the passes through the body of the loop: one per value returned, and the one
\* that left the loop by a break
VarintPasses == Len(res) + (IF VarintTrip = "none" THEN 0 ELSE 1)

\* C22: decode_varint_delta terminates on every payload and every n >= 0: a read
\* at an offset inside the payload consumes at least one byte and stays inside
\* the payload, so every pass either leaves the loop or moves i forward; the
\* loop is left after at most min(2 * len(payload), 4n + 1024) passes (and at most
\* len(payload)), and at most n values are returned.
C22_VarintTerminates ==
    (pc = "Returned" /\ Decoder = "varint") =>
        /\ \A i \in 0..(Len(b) - 1) :
              read_varint_leb128(b, i).i \in (i + 1)..Len(b)
        /\ VarintAt(Min(Len(b), VarintMaxSteps(b, exp_n)) + 1).halt
        /\ VarintPasses <= VarintMaxSteps(b, exp_n)
        /\ VarintPasses <= Len(b)
        /\ Len(res) <= exp_n

\* five bytes that are three varints, decoded with n = 4: three passes, the
\* payload used up before the fourth
C22_Witness ==
    /\ pc = "Returned" /\ Decoder = "varint" /\ b = <<2, 255, 127, 255, 2>>
    /\ exp_n = 4 /\ Len(res) = 3 /\ VarintPasses = 3
    /\ VarintAt(3).i = Len(b) /\ ~VarintAt(3).halt /\ VarintAt(4).halt

\* the tests of the while condition looked at: all of them, or the first hundred
\* and the last on the long payloads
VarintTests ==
    IF b \in GuardPayloads THEN 0..100 \cup {Len(res)} ELSE 0..Len(res)

\* C30: in decode_varint_delta steps is the number of values output so far, and
\* the step budget never stops the loop first: at a test of the while condition
\* where steps >= max_steps, len(out) >= n or i >= len(payload) holds as well, and
\* the number of values returned is that of the loop without the budget.
C30_BudgetNeverFirst ==
    (pc = "Returned" /\ Decoder = "varint") =>
        /\ \A j \in VarintTests :
              LET st == VarintAt(j)
              IN  /\ st.steps = Len(st.out)
                  /\ st.steps >= VarintMaxSteps(b, exp_n) =>
                        (Len(st.out) >= exp_n \/ st.i >= Len(b))
        /\ Len(res) = Len(SumsWithin(DeltasRead(b, exp_n)))

\* the empty payload: the budget is 0 and is met at the first test, where the
\* payload is used up as well
C30_Witness ==
    /\ pc = "Returned" /\ Decoder = "varint" /\ b = << >> /\ exp_n = 2
    /\ VarintMaxSteps(b, exp_n) = 0 /\ VarintAt(0).steps >= VarintMaxSteps(b, exp_n)
    /\ res = << >>

\* four one-byte varints decoded with n = 4: the budget of 8 steps is not met
C30_FullWitness ==
    /\ pc = "Returned" /\ Decoder = "varint" /\ b = <<2, 127, 2, 127>> /\ exp_n = 4
    /\ Len(res) = 4 /\ VarintAt(4).steps = 4 /\ VarintMaxSteps(b, exp_n) = 8

(***************************************************************************)
(* The digital alignment probe                                             *)
(***************************************************************************)

\* a digital block past its alignment probe
DcAligned == tool = "dc" /\ (pc = "DcBits" \/ (pc = "Done" /\ outcome = "Emitted"))

\* (len(buf) - header_end - skip) * 8 >= expected_sample_count
DcFits(skip) ==
    (Len(b) - header_end - skip) * 8 >= Max((te - tb) \div Max(period_ms, 1), 0)

\* C23: digital alignment is first fit: the chosen skip is the smallest skip in
\* 0..4 that leaves at least expected_sample_count bits, and skip 0 when none
\* does; the payload starts at header_end + skip.
C23_FirstFit ==
    DcAligned =>
        /\ chosen \in 0..4
        /\ (\E s \in 0..4 : DcFits(s)) =>
              (DcFits(chosen) /\ \A s \in 0..(chosen - 1) : ~DcFits(s))
        /\ ~(\E s \in 0..4 : DcFits(s)) => chosen = 0
        /\ picked = Slice(b, header_end + chosen)

\* a block whose payload holds more bytes than the expected samples need: several
\* skips fit and the first is taken
C23_Witness ==
    /\ DcAligned /\ pc = "Done" /\ Len(rows) > 0
    /\ DcFits(0) /\ DcFits(1) /\ DcFits(2) /\ chosen = 0

\* a block whose payload is shorter than the expected samples: no skip fits
C23_NoFitWitness ==
    /\ DcAligned /\ pc = "Done" /\ Len(rows) > 0
    /\ ~(\E s \in 0..4 : DcFits(s)) /\ chosen = 0

\* C26: the probe never selects a non-zero skip: the bits left only decrease as
\* the skip grows, so a skip in 1..4 fits only if skip 0 does; the chosen skip is
\* 0 for every block and the digital payload starts exactly at header_end.
C26_SkipAlwaysZero ==
    DcAligned =>
        /\ \A s \in 1..4 : DcFits(s) => DcFits(0)
        /\ chosen = 0
        /\ picked = Slice(b, header_end)

\* a block searched past skip 0: skip 0 does not fit, neither do the others, and
\* the payload, taken from header_end, is emitted
C26_Witness ==
    /\ DcAligned /\ pc = "Done" /\ ~DcFits(0) /\ exp_n > 8 * Len(picked)
    /\ period_ms = 250 /\ Len(b) = header_end + 1 /\ Len(rows) = 8

(***************************************************************************)
(* Digital bit unpacking                                                   *)
(***************************************************************************)

\* the byte with its eight bits in reverse order
BitReversed(byte) ==
    LET bit(j) == (byte \div (2 ^ j)) % 2
    IN  bit(0) * 128 + bit(1) * 64 + bit(2) * 32 + bit(3) * 16
          + bit(4) * 8 + bit(5) * 4 + bit(6) * 2 + bit(7)

\* C24: the i-th sample of a digital block (i from 0) is
\* (payload[i div 8] >> (i mod 8)) & 1 LSB-first and
\* (payload[i div 8] >> (7 - i mod 8)) & 1 MSB-first; it is 0 or 1, and the
\* MSB-first bit of a byte is the LSB-first bit of the bit-reversed byte.
C24_BitUnpacking ==
    tool = "dc" =>
        \A i \in 0..(Len(rows) - 1) :
            LET byte == Slice(b, header_end + chosen)[(i \div 8) + 1]
                v == rows[i + 1][2]
            IN  /\ v \in {0, 1}
                /\ ~msb_first => v = (byte \div (2 ^ (i % 8))) % 2
                /\ msb_first => v = (byte \div (2 ^ (7 - (i % 8)))) % 2
                /\ msb_first => v = (BitReversed(byte) \div (2 ^ (i % 8))) % 2

\* MSB-first, into the second byte of a payload whose bytes are not palindromes
C24_Witness ==
    /\ tool = "dc" /\ msb_first /\ pc = "Done" /\ period_ms = 250 /\ Len(rows) = 12
    /\ Slice(b, header_end) = <<5, 255>> \o Zeros(Len(b) - header_end - 2)
    /\ \A i \in 1..5 : rows[i][2] = 0
    /\ rows[6][2] = 1 /\ rows[7][2] = 0 /\ rows[8][2] = 1 /\ rows[9][2] = 1

\* LSB-first with a positive period: the bits of 0b00000101 from the lowest
C24_LsbWitness ==
    /\ tool = "dc" /\ ~msb_first /\ pc = "Done" /\ period_ms = 500 /\ Len(rows) = 6
    /\ \A i \in 1..6 : rows[i] = <<tb + (i - 1) * 500, IF i \in {1, 3} THEN 1 ELSE 0>>

(***************************************************************************)
(* The fixed-width decoders on arbitrary bytes                             *)
(***************************************************************************)

\* the width in bytes of an element of the decoder called
Width == CASE Decoder = "f32" -> 4 [] Decoder = "f64" -> 8 [] OTHER -> 2

\* the element at index j (from 1) of the payload
ElementAt(j) ==
    CASE Decoder = "f32" -> F32At(b, 4 * (j - 1))
      [] Decoder = "f64" -> F64At(b, 8 * (j - 1))
      [] OTHER -> FlInt(I16At(b, 2 * (j - 1)) * scale)

\* C25: decode_float32, decode_float64 and decode_int16_scaled return exactly
\* min(n, floor(len(payload) / w)) values for w = 4, 8, 2, the leading elements of
\* the payload in order; bytes that do not fill an element are ignored, and n = 0
\* or a payload shorter than w gives the empty candidate.
C25_FixedWidthCap ==
    (pc = "Returned" /\ Decoder \in {"f32", "f64", "i16"}) =>
        /\ Len(res) = Min(exp_n, Len(b) \div Width)
        /\ \A j \in 1..Len(res) : res[j] = ElementAt(j)
        /\ (exp_n = 0 \/ Len(b) < Width) => res = << >>

\* eleven bytes decoded as int16 with n = 4: five whole elements and a trailing
\* byte in the payload, four values returned
C25_Witness ==
    /\ pc = "Returned" /\ arg.fn = "raw" /\ Decoder = "i16" /\ Len(b) = 11
    /\ exp_n = 4 /\ Len(res) = 4 /\ res[4] = FlInt(-1)

\* five bytes decoded as float32 with n = 3: the payload holds one element only
C25_ShortWitness ==
    /\ pc = "Returned" /\ arg.fn = "raw" /\ Decoder = "f32" /\ Len(b) = 5
    /\ exp_n = 3 /\ Len(res) = 1

\* eleven bytes decoded as float64: one element, and none with n = 0
C25_DoubleWitness ==
    /\ pc = "Returned" /\ arg.fn = "raw" /\ Decoder = "f64" /\ Len(b) = 11
    /\ exp_n = 2 /\ res = <<NaN>>

(***************************************************************************)
(* The number of samples of a digital block                                *)
(***************************************************************************)

\* ceil(x / y) for y > 0
CeilDiv(x, y) == (x + y - 1) \div y

\* a digital block with a located, whole header, decoded to its end
DcDecoded == tool = "dc" /\ pc = "Done" /\ outcome = "Emitted"

\* C27: a digital block with a located, non-truncated header, period_ms >= 1 and
\* end_time > start_time emits exactly
\* min(8 * (len(buf) - header_end), ceil(block_duration_ms / period_ms)) samples and
\* stops at the first tick that reaches end_time; a block with
\* end_time <= start_time emits none.
C27_DigitalSampleCount ==
    DcDecoded =>
        /\ (period_ms >= 1 /\ te > tb) =>
              /\ Len(rows) = Min(8 * (Len(b) - header_end), CeilDiv(te - tb, period_ms))
              /\ \A i \in 1..Len(rows) : tb + (i - 1) * period_ms < te
              /\ Len(rows) < 8 * (Len(b) - header_end) =>
                    tb + Len(rows) * period_ms >= te
        /\ te <= tb => rows = << >>

\* a period longer than the block: one sample, where the expected count is 0
C27_Witness ==
    /\ DcDecoded /\ period_ms = 4000 /\ te - tb = 3000 /\ exp_n = 0
    /\ Len(b) - header_end >= 2 /\ Len(rows) = 1

\* the payload runs out before the end time
C27_PayloadWitness ==
    /\ DcDecoded /\ period_ms = 250 /\ te - tb = 3000 /\ Len(b) - header_end = 1
    /\ Len(rows) = 8

\* the end time is reached inside the second payload byte
C27_TimeWitness ==
    /\ DcDecoded /\ period_ms = 250 /\ te - tb = 3000 /\ Len(b) - header_end = 3
    /\ Len(rows) = 12

\* a block that ends before it starts
C27_EmptyWitness ==
    /\ DcDecoded /\ te < tb /\ Len(b) - header_end >= 2 /\ rows = << >>

(***************************************************************************)
(* The number of samples of an analog block with a header                  *)
(***************************************************************************)

\* an analog block whose date double was found and whose period was read
AnalogHeaderPath == tool = "analog" /\ off # None /\ ~HeaderTruncated(b, off)

\* C28: in the header-found analog path, auto or forced codec, the number of
\* samples emitted never exceeds max(floor(block_duration_ms / max(period_ms, 1)), 0);
\* a block whose header period exceeds its duration emits no sample and, in auto
\* mode, is reported as no decoder matched.
C28_AnalogCountBound ==
    AnalogHeaderPath =>
        LET expected == Max((te - tb) \div Max(U32LE(b, off + 8), 1), 0)
        IN  /\ Len(rows) <= expected
            /\ (expected = 0 /\ pc = "Done") =>
                  /\ rows = << >>
                  /\ codec = "auto" => outcome = "NoPlausibleCodec"

\* auto mode, a period of 4000 ms in a block of 3000 ms with twelve payload bytes
C28_Witness ==
    /\ AnalogHeaderPath /\ codec = "auto" /\ pc = "Done" /\ te - tb = 3000
    /\ period_ms = 4000 /\ Slice(b, header_end) = PayloadF32
    /\ rows = << >> /\ outcome = "NoPlausibleCodec"

\* a forced codec and a payload longer than the expected count: three float32
\* values in the payload, two written
C28_ForcedWitness ==
    /\ AnalogHeaderPath /\ codec = "f32" /\ pc = "Done" /\ te - tb = 2000
    /\ period_ms = 1000 /\ Slice(b, header_end) = PayloadF32 /\ Len(rows) = 2

\* auto mode, as many samples as expected
C28_FullWitness ==
    /\ AnalogHeaderPath /\ codec = "auto" /\ pc = "Done" /\ te - tb = 3000
    /\ period_ms = 1000 /\ Len(rows) = 3

(***************************************************************************)
(* The date double of the header                                           *)
(***************************************************************************)

\* the block with the eight bytes of its date double replaced by h
WithDouble(h) == [b |-> Prefix(b, off) \o h \o Slice(b, off + 8), tb |-> tb, te |-> te]

\* the doubles in [35000, 55000] that, put in place of the block's, are again the
\* first match, at the same offset
OtherDoubles ==
    { h \in {HdrLo, HdrMid, HdrHi} :
        find_excel_serial_double(WithDouble(h).b, SearchLimit) = off }

\* C29: the value of the located date double does not influence the output: a
\* block that differs only in the eight bytes of the double (another value in
\* [35000, 55000], found at the same offset) and has the same start and end time
\* decodes to the same outcome, period, codec and samples.
C29_DateDoubleIgnored ==
    (pc = "Done" /\ off # None) =>
        \A h \in OtherDoubles :
            LET r == BlockResult(WithDouble(h))
            IN  /\ r.outcome = Result.outcome
                /\ r.period = Result.period
                /\ r.name = Result.name
                /\ r.rows = Result.rows

\* an analog block decoded in auto mode to three samples, its double replaceable
\* by the two others
C29_Witness ==
    /\ tool = "analog" /\ codec = "auto" /\ pc = "Done" /\ off = 5
    /\ outcome = "Emitted" /\ Len(rows) = 3 /\ OtherDoubles = {HdrLo, HdrMid, HdrHi}
    /\ WithDouble(HdrLo).b # WithDouble(HdrHi).b
    /\ BlockResult(WithDouble(HdrLo)).rows = rows

\* a digital block
C29_DigitalWitness ==
    /\ tool = "dc" /\ pc = "Done" /\ off # None /\ outcome = "Emitted" /\ Len(rows) = 6
    /\ SubSeq(b, off + 1, off + 8) = HdrMid /\ HdrHi \in OtherDoubles
    /\ BlockResult(WithDouble(HdrHi)).rows = rows

====
